---------------------------- MODULE Spec2Model ----------------------------
(***************************************************************************)
(* A model of the just-data-copier transfer engine: the receiver           *)
(* (internal/server, handleConnection / handleFileTransfer) and the sender *)
(* (package client, Run / negotiateResume / handleServerRequests) joined   *)
(* by the two byte streams of one TCP connection, together with the        *)
(* receiver's disk (output file and transfer-state file).                  *)
(*                                                                         *)
(* The streams are sequences of bytes (0..255).  Lines are ASCII bytes     *)
(* terminated by 10, integers are ASCII decimal, exactly as                *)
(* internal/protocol writes and parses them.                               *)
(***************************************************************************)
EXTENDS Integers, Sequences, FiniteSets, TLC

(***************************************************************************)
(* Bounds of the model.                                                    *)
(***************************************************************************)
MaxFileSize == 3
MaxChunkSize == 2
MaxRetries == 2
MaxSessions == 2
MaxWait == 3
MaxDuration == 150
MaxElapsed == 1
MaxDelaySetting == 2
MaxRTT == 2000

\* Longest completed-chunks bitmap of the ResumeInfo records read back.
MaxWireChunks == 11

(***************************************************************************)
(* Command operation codes (package protocol).                             *)
(***************************************************************************)
CmdInit == 1
CmdRequest == 2
CmdData == 3
CmdComplete == 4
CmdError == 5
CmdHash == 6
CmdHashAlgo == 7
CmdPing == 8
CmdPong == 9
CmdVersion == 10
CmdResume == 11
CmdResumeAck == 12

HashMD5 == <<109,100,53>>
HashSHA256 == <<115,104,97,50,53,54>>
HashBLAKE2b == <<98,108,97,107,101,50,98>>

\* 50 GiB, scaled to the model's file sizes: files of LargeFileSizeThreshold
\* bytes or more are "large".
LargeFileSizeThreshold == 3

(***************************************************************************)
(* Generic sequence helpers.                                               *)
(***************************************************************************)
Range(s) == { s[i] : i \in 1..Len(s) }

Min(a, b) == IF a < b THEN a ELSE b

Max(a, b) == IF a > b THEN a ELSE b

Drop(s, n) == SubSeq(s, n + 1, Len(s))

Take(s, n) == SubSeq(s, 1, Min(n, Len(s)))

\* Index of the first occurrence of b in s (0 when absent).
IndexOf(s, b) ==
    IF \E i \in 1..Len(s) : s[i] = b
    THEN CHOOSE i \in 1..Len(s) : s[i] = b /\ \A j \in 1..(i - 1) : s[j] # b
    ELSE 0

\* strings.TrimSpace on ASCII bytes: \t \n \v \f \r and space.
IsSpace(b) == b \in {9, 10, 11, 12, 13, 32}

TrimSpace(s) ==
    IF \A i \in 1..Len(s) : IsSpace(s[i]) THEN <<>>
    ELSE LET lo == CHOOSE i \in 1..Len(s) :
                       ~IsSpace(s[i]) /\ \A j \in 1..(i - 1) : IsSpace(s[j])
             hi == CHOOSE i \in 1..Len(s) :
                       ~IsSpace(s[i]) /\ \A j \in (i + 1)..Len(s) : IsSpace(s[j])
         IN  SubSeq(s, lo, hi)

IsDigit(b) == b \in 48..57

RECURSIVE DigitsValue(_)
DigitsValue(s) ==
    IF s = <<>> THEN 0
    ELSE 10 * DigitsValue(SubSeq(s, 1, Len(s) - 1)) + (s[Len(s)] - 48)

\* strconv.ParseInt(str, 10, 64): optional sign, then at least one digit.
IsInt(s) ==
    LET body == IF s # <<>> /\ s[1] \in {43, 45} THEN Tail(s) ELSE s
    IN  body # <<>> /\ \A i \in 1..Len(body) : IsDigit(body[i])

ParseInt(s) ==
    IF s[1] = 45 THEN 0 - DigitsValue(Tail(s))
    ELSE IF s[1] = 43 THEN DigitsValue(Tail(s))
    ELSE DigitsValue(s)

RECURSIVE NatDigits(_)
NatDigits(n) ==
    IF n < 10 THEN <<48 + n>> ELSE NatDigits(n \div 10) \o <<48 + (n % 10)>>

\* strconv.FormatInt(val, 10)
FormatInt(n) == IF n < 0 THEN <<45>> \o NatDigits(0 - n) ELSE NatDigits(n)

\* strconv.ParseBool
BoolTrueStrings ==
    { <<49>>, <<116>>, <<84>>, <<84,82,85,69>>, <<116,114,117,101>>, <<84,114,117,101>> }

BoolFalseStrings ==
    { <<48>>, <<102>>, <<70>>, <<70,65,76,83,69>>, <<102,97,108,115,101>>,
      <<70,97,108,115,101>> }

(***************************************************************************)
(* Reading from a stream.  A read of stream s yields                       *)
(*   st = "ok"    : value v was read, rest is what remains;                *)
(*   st = "err"   : the read failed, rest is what remains;                 *)
(*   st = "block" : not enough bytes have arrived yet.                     *)
(* eof says that the peer has closed the connection: a read that would     *)
(* block then fails with io.EOF, having drained the stream.                *)
(***************************************************************************)
Ok(v, rest) == [st |-> "ok", v |-> v, rest |-> rest]

Err(rest) == [st |-> "err", v |-> <<>>, rest |-> rest]

Starve(eof) == IF eof THEN Err(<<>>) ELSE [st |-> "block", v |-> <<>>, rest |-> <<>>]

ReadCommand(s, eof) == IF s = <<>> THEN Starve(eof) ELSE Ok(Head(s), Tail(s))

ReadString(s, eof) ==
    LET i == IndexOf(s, 10)
    IN  IF i = 0 THEN Starve(eof)
        ELSE Ok(TrimSpace(SubSeq(s, 1, i - 1)), Drop(s, i))

\* The `if err != nil { return ..., err }` idiom: go on with F when the read
\* succeeded, hand the failed (or starved) read on otherwise.
Then(r, F(_)) == IF r.st = "ok" THEN F(r) ELSE r

ReadInt64(s, eof) ==
    Then(ReadString(s, eof),
         LAMBDA r : IF IsInt(r.v) THEN Ok(ParseInt(r.v), r.rest) ELSE Err(r.rest))

ReadBool(s, eof) ==
    Then(ReadString(s, eof),
         LAMBDA r : IF r.v \in BoolTrueStrings THEN Ok(TRUE, r.rest)
                    ELSE IF r.v \in BoolFalseStrings THEN Ok(FALSE, r.rest)
                    ELSE Err(r.rest))

\* The loops over ReadWithContext that read exactly n bytes.
ReadFull(s, n, eof) ==
    IF Len(s) < n THEN Starve(eof) ELSE Ok(SubSeq(s, 1, n), Drop(s, n))

(***************************************************************************)
(* Writing: the bytes each Send* appends to the writer.                    *)
(***************************************************************************)
SendCommand(cmd) == <<cmd>>

SendString(str) == str \o <<10>>

SendInt64(val) == SendString(FormatInt(val))

SendBool(val) ==
    IF val THEN SendString(<<116,114,117,101>>) ELSE SendString(<<102,97,108,115,101>>)

SendError(message) == SendCommand(CmdError) \o SendString(message)


(***************************************************************************)
(* Resume information on the wire (package protocol).  A bitmap is a       *)
(* sequence of BOOLEAN; chunk index i of the program is position i + 1.    *)
(***************************************************************************)
RECURSIVE ChunkList(_, _)
\* The comma-separated indices of the completed chunks among the first n.
ChunkList(bitmap, n) ==
    IF n = 0 THEN <<>>
    ELSE LET before == ChunkList(bitmap, n - 1)
         IN  IF bitmap[n]
             THEN (IF before = <<>> THEN <<>> ELSE before \o <<44>>) \o FormatInt(n - 1)
             ELSE before

SendResumeInfo(resumeInfo) ==
    SendCommand(CmdResume) \o
    ( IF resumeInfo.CanResume
      THEN <<1>> \o SendInt64(resumeInfo.ResumeOffset) \o SendInt64(resumeInfo.TotalChunks)
           \o SendString(ChunkList(resumeInfo.CompletedChunks,
                                   Len(resumeInfo.CompletedChunks)))
      ELSE <<0>> )

RECURSIVE Split(_, _)
\* strings.Split(s, sep) for a one-byte separator.
Split(s, sep) ==
    LET i == IndexOf(s, sep)
    IN  IF i = 0 THEN <<s>> ELSE <<SubSeq(s, 1, i - 1)>> \o Split(Drop(s, i), sep)

\* Faulty variant of ParseChunkList: the indices of the line are taken as
\* counted from one.
parseChunkListFromOne(str, total) ==
    LET parts == IF str = <<>> THEN <<>> ELSE Split(str, 44)
        named == { ParseInt(TrimSpace(parts[k])) :
                     k \in { j \in 1..Len(parts) : IsInt(TrimSpace(parts[j])) } }
    IN  [i \in 1..total |-> i \in named]

\* The bitmap ReadResumeInfo builds from the completed-chunks line.
ParseChunkList(str, total) ==
    LET parts == IF str = <<>> THEN <<>> ELSE Split(str, 44)
        named == { ParseInt(TrimSpace(parts[k])) :
                     k \in { j \in 1..Len(parts) : IsInt(TrimSpace(parts[j])) } }
    IN  [i \in 1..total |-> (i - 1) \in named]

\* ReadResumeInfo, called after the Resume command byte has been read.
\* make([]bool, TotalChunks) panics on a negative count: st = "panic".
ReadResumeInfo(s, eof) ==
    Then(ReadCommand(s, eof), LAMBDA flag :
        IF flag.v # 1
        THEN Ok([CanResume |-> FALSE, ResumeOffset |-> 0, TotalChunks |-> 0,
                 CompletedChunks |-> <<>>], flag.rest)
        ELSE Then(ReadInt64(flag.rest, eof), LAMBDA off :
             Then(ReadInt64(off.rest, eof), LAMBDA tot :
             Then(ReadString(tot.rest, eof), LAMBDA lst :
                 IF tot.v < 0
                 THEN [st |-> "panic", v |-> <<>>, rest |-> lst.rest]
                 ELSE Ok([CanResume |-> TRUE,
                          ResumeOffset |-> off.v,
                          TotalChunks |-> tot.v,
                          CompletedChunks |-> ParseChunkList(lst.v, tot.v)],
                         lst.rest)))))

SendResumeAck(accepted) == SendCommand(CmdResumeAck) \o (IF accepted THEN <<1>> ELSE <<0>>)

ReadResumeAck(s, eof) ==
    Then(ReadCommand(s, eof), LAMBDA r : Ok(r.v = 1, r.rest))

SendHashAlgorithm(algorithm) == SendCommand(CmdHashAlgo) \o SendString(algorithm)

\* Faulty variant of ReadHashAlgorithm: any token is taken as an algorithm.
readAnyAlgorithm(s, eof) == ReadString(s, eof)

ReadHashAlgorithm(s, eof) ==
    Then(ReadString(s, eof),
         LAMBDA r : IF r.v \in {HashMD5, HashSHA256, HashBLAKE2b} THEN r
                    ELSE Err(r.rest))

(***************************************************************************)
(* Hashing.  A digest is modelled as collision-free: the lowercase hex     *)
(* encoding of a tag for the algorithm followed by the content.            *)
(***************************************************************************)
HexDigit(d) == IF d < 10 THEN 48 + d ELSE 87 + d

RECURSIVE HexEncode(_)
HexEncode(bytes) ==
    IF bytes = <<>> THEN <<>>
    ELSE <<HexDigit(Head(bytes) \div 16), HexDigit(Head(bytes) % 16)>>
         \o HexEncode(Tail(bytes))

SelectHashAlgorithm(fileSize) ==
    IF fileSize < LargeFileSizeThreshold THEN HashMD5 ELSE HashBLAKE2b

CalculateFileHashWithAlgorithm(content, algorithm) ==
    HexEncode(<<Len(algorithm)>> \o content)

\* The legacy, MD5-only digest.
CalculateFileHash(content) == CalculateFileHashWithAlgorithm(content, HashMD5)

(***************************************************************************)
(* Compression.  gzip is modelled as a one-byte magic number, the body     *)
(* with every byte b replaced by 255 - b, and a one-byte trailer holding   *)
(* the length of the body (the CRC/ISIZE trailer).                         *)
(***************************************************************************)
CompressData(data) ==
    <<31>> \o [i \in 1..Len(data) |-> 255 - data[i]] \o <<Len(data)>>

\* DecompressData: gzip.NewReader fails on a bad header; io.ReadFull fills a
\* buffer of expectedSize bytes and stops there, so a longer stream is cut
\* and its trailer never checked; a shorter stream runs into the trailer,
\* which is checked, and the short result is returned without an error.
DecompressData(compressedData, expectedSize) ==
    IF Len(compressedData) < 2 \/ compressedData[1] # 31 THEN Err(<<>>)
    ELSE LET body == SubSeq(compressedData, 2, Len(compressedData) - 1)
             plain == [i \in 1..Len(body) |-> 255 - body[i]]
             trailerOk == compressedData[Len(compressedData)] = Len(body)
         IN  IF Len(plain) >= expectedSize THEN Ok(Take(plain, expectedSize), <<>>)
             ELSE IF trailerOk THEN Ok(plain, <<>>)
             ELSE Err(<<>>)

CompressibleExtensions ==
    { <<46,116,120,116>>, <<46,108,111,103>>, <<46,99,115,118>>,
      <<46,106,115,111,110>>, <<46,120,109,108>>, <<46,104,116,109,108>>,
      <<46,104,116,109>>, <<46,99,115,115>>, <<46,106,115>>, <<46,115,113,108>>,
      <<46,109,100>>, <<46,121,97,109,108>>, <<46,121,109,108>>, <<46,105,110,105>>,
      <<46,99,111,110,102>>, <<46,99,102,103>> }

AlreadyCompressedExtensions ==
    { <<46,122,105,112>>, <<46,103,122>>, <<46,98,122,50>>, <<46,120,122>>,
      <<46,114,97,114>>, <<46,55,122>>, <<46,116,97,114>>, <<46,109,112,51>>,
      <<46,109,112,52>>, <<46,97,118,105>>, <<46,109,107,118>>, <<46,106,112,103>>,
      <<46,106,112,101,103>>, <<46,112,110,103>>, <<46,103,105,102>>,
      <<46,119,101,98,112>>, <<46,112,100,102>>, <<46,100,111,99,120>>,
      <<46,120,108,115,120>>, <<46,112,112,116,120>>, <<46,111,100,116>>,
      <<46,111,100,115>>, <<46,111,100,112>> }

\* filepath.Ext: the suffix beginning at the final dot (empty when none).
Ext(name) ==
    IF \E i \in 1..Len(name) : name[i] = 46
    THEN LET i == CHOOSE k \in 1..Len(name) :
                      name[k] = 46 /\ \A j \in (k + 1)..Len(name) : name[j] # 46
         IN  SubSeq(name, i, Len(name))
    ELSE <<>>

ToLower(s) == [i \in 1..Len(s) |-> IF s[i] \in 65..90 THEN s[i] + 32 ELSE s[i]]

\* Faulty variant of ShouldCompress: whatever is not known to be compressed
\* already is compressed.
compressUnlessCompressed(filename) ==
    ToLower(Ext(filename)) \notin AlreadyCompressedExtensions

ShouldCompress(filename) ==
    LET ext == ToLower(Ext(filename))
    IN  IF ext \in AlreadyCompressedExtensions THEN FALSE
        ELSE ext \in CompressibleExtensions

(***************************************************************************)
(* Files.  A file on disk is <<>> when it does not exist and <<content>>   *)
(* when it does.                                                           *)
(***************************************************************************)
Zeros(n) == [i \in 1..n |-> 0]

\* os.File.WriteAt: the file grows, zero-filled, to hold the written range.
WriteAt(content, data, offset) ==
    [i \in 1..Max(Len(content), offset + Len(data)) |->
        IF i > offset /\ i <= offset + Len(data) THEN data[i - offset]
        ELSE IF i <= Len(content) THEN content[i]
        ELSE 0]

\* os.File.ReadAt into a buffer of bufLen bytes.
ReadAt(content, bufLen, offset) ==
    IF offset >= Len(content) THEN <<>>
    ELSE SubSeq(content, offset + 1, Min(offset + bufLen, Len(content)))

\* PreallocateFile: fallocate always fails, Truncate(size) does the work.
PreallocateFile(content, size) ==
    [i \in 1..size |-> IF i <= Len(content) THEN content[i] ELSE 0]

NumChunksOf(fileSize, chunkSize) == (fileSize + chunkSize - 1) \div chunkSize

(***************************************************************************)
(* Network profile (network.ProfileNetwork).  Durations are in ms, sizes   *)
(* in bytes, bandwidths in bytes per second.                               *)
(***************************************************************************)
ProfileDefaultRTT == 100
DefaultChunkSize == 2097152
VeryLowLatencyBandwidth == 52428800
MediumLatencyBandwidth == 20971520
HighLatencyBandwidth == 10485760
VeryHighLatencyBandwidth == 5242880
MinOptimalChunkSize == 524288
MaxOptimalChunkSize == 8388608

\* The bandwidth estimated from the round-trip time.
EstimateBandwidth(rtt) ==
    IF rtt < 10 THEN VeryLowLatencyBandwidth
    ELSE IF rtt < 50 THEN MediumLatencyBandwidth
    ELSE IF rtt < 100 THEN HighLatencyBandwidth
    ELSE VeryHighLatencyBandwidth

\* int64(float64(bandwidth) * RTT.Seconds()) for an RTT of rtt ms: the
\* product bandwidth * rtt / 1000 truncated, computed without leaving the
\* range of the model's integers.
BandwidthDelayProduct(bandwidth, rtt) ==
    (bandwidth \div 1000) * rtt + ((bandwidth % 1000) * rtt) \div 1000

\* "Adjust for higher latency": one and a half times the size when that
\* does not exceed 8 MiB.
LatencyAdjusted(optimalChunkSize, rtt) ==
    IF rtt > 50 /\ (3 * optimalChunkSize) \div 2 <= MaxOptimalChunkSize
    THEN (3 * optimalChunkSize) \div 2
    ELSE optimalChunkSize

\* ProfileNetwork from the label ProfileCompletion on, for the RTT in the
\* profile.
OptimalChunkSizeFor(rtt) ==
    LatencyAdjusted(
        Min(Max(BandwidthDelayProduct(EstimateBandwidth(rtt), rtt), MinOptimalChunkSize),
            MaxOptimalChunkSize),
        rtt)

(***************************************************************************)
(* Adaptive delay (network.NetworkStats).  Durations are in milliseconds   *)
(* and range over -MaxDuration-1..MaxDuration; the float64 multiplier is   *)
(* kept as a multiple of 1/MultScale and transfer rates in units of 20     *)
(* bytes per second, both rounded towards zero.  LastChunkTime and         *)
(* LastChunkSize, which are only written, are left out.                    *)
(***************************************************************************)
DefaultChunkDelay == 10
DefaultMinDelay == 1
DefaultMaxDelay == 100

MultScale == 50

Durations == (0 - MaxDuration - 1)..MaxDuration

\* Division rounding towards zero, as a float64-to-integer conversion does.
Trunc(a, b) == IF a >= 0 THEN a \div b ELSE 0 - ((0 - a) \div b)

NewNetworkStats(cfg) ==
    [ DelayMultiplier |-> MultScale, AvgTransferRate |-> 0,
      minDelay |-> IF cfg.AdaptiveDelay THEN cfg.MinDelay ELSE DefaultMinDelay,
      maxDelay |-> IF cfg.AdaptiveDelay THEN cfg.MaxDelay ELSE DefaultMaxDelay ]

\* Faulty variant of boundMultiplier: the multiplier is left as it is.
unboundedMultiplier(m) == m

\* "Keep multiplier in reasonable bounds": [0.1, 10].
boundMultiplier(m) ==
    IF m < MultScale \div 10 THEN MultScale \div 10
    ELSE IF m > 10 * MultScale THEN 10 * MultScale
    ELSE m

\* UpdateStats when duration (ms) has passed since the previous chunk.
UpdateStats(ns, chunkSize, duration) ==
    IF duration > 0
    THEN LET currentRate == (chunkSize * 50) \div duration
             avg == IF ns.AvgTransferRate = 0 THEN currentRate
                    ELSE (7 * ns.AvgTransferRate + 3 * currentRate) \div 10
             m == IF 10 * currentRate < 7 * avg THEN (ns.DelayMultiplier * 12) \div 10
                  ELSE IF 10 * currentRate > 12 * avg THEN (ns.DelayMultiplier * 8) \div 10
                  ELSE ns.DelayMultiplier
         IN  [ns EXCEPT !.AvgTransferRate = avg,
                        !.DelayMultiplier = boundMultiplier(m)]
    ELSE ns

\* GetDelay: the results the build can give.  time.Duration(float64) of a
\* product outside the range of a Duration is implementation-dependent: the
\* smallest Duration on amd64, the nearest Duration on arm64; the two bounds
\* are applied to whatever it gave.
GetDelay(ns, baseDelay) ==
    LET product == Trunc(baseDelay * ns.DelayMultiplier, MultScale)
        converted == IF product \in Durations THEN {product}
                     ELSE {0 - MaxDuration - 1,
                           IF product > 0 THEN MaxDuration ELSE 0 - MaxDuration - 1}
        bounded(delay) ==
            LET low == IF delay < ns.minDelay THEN ns.minDelay ELSE delay
            IN  IF low > ns.maxDelay THEN ns.maxDelay ELSE low
    IN  { bounded(delay) : delay \in converted }

(***************************************************************************)
(* State.                                                                  *)
(***************************************************************************)
VARIABLES
    source,     \* content of the source file (sender's disk)
    filePath,   \* cfg.FilePath of the sender
    serverCfg,  \* the receiver's config.Config
    clientCfg,  \* the sender's config.Config as given on its command line
    outFile,    \* <output_dir>/<basename>: <<>> or <<content>>
    stateFile,  \* <output_dir>/<basename>.justdatacopier.state: <<>> or <<state>>
    c2s,        \* bytes written by the sender, not yet read by the receiver
    s2c,        \* bytes written by the receiver, not yet read by the sender
    spc,        \* where the receiver is in handleConnection / handleFileTransfer
    srv,        \* the receiver's local variables
    cpc,        \* where the sender is in Run
    cl,         \* the sender's local variables
    session,    \* number of the current connection
    log,        \* history of the current connection
    other,      \* a second connection handled by the same receiver process
    netStats,   \* the delay settings and the network.NetworkStats of one side
    startup,    \* the config.Config of a process and what Validate said of it
    netProfile, \* the average RTT ProfileNetwork measured and the profile it returned
    wire        \* a ResumeInfo, the bytes SendResumeInfo wrote for it, what was read back

vars == <<source, filePath, serverCfg, clientCfg, outFile, stateFile, c2s, s2c,
          spc, srv, cpc, cl, session, log, other, netStats, startup,
          netProfile, wire>>

\* What no step of the transfer changes: the sender's file and the settings,
\* the goroutine of the second connection, and the delay statistics.
env == <<source, filePath, serverCfg, clientCfg, other, netStats, startup, netProfile,
        wire>>

\* Source files: one per size, no two positions of a chunk grid alike (so a
\* misplaced or missing chunk shows), with newline bytes in the data.
SourceByte(i) == IF i % 2 = 0 THEN 10 ELSE i + 2

FileContents == { [i \in 1..n |-> SourceByte(i)] : n \in 1..MaxFileSize }

ChunkSizes == 1..MaxChunkSize

FilePaths == { <<102,46,116,120,116>>, <<102,46,122,105,112>> }

\* ProfileNetwork's result, as far as adjustConfigForNetwork reads it: the
\* round-trip time in ms and the recommended chunk size.
NetworkProfiles ==
    { [RTT |-> 20, OptimalChunkSize |-> 1] } \cup
    { [RTT |-> 150, OptimalChunkSize |-> c] : c \in ChunkSizes }

SrvClosed == spc \in {"closed", "killed", "panicked"}

CliClosed == cpc = "exit"

srvInit ==
    [ filename |-> <<>>, fileSize |-> 0, shouldVerifyHash |-> FALSE, numChunks |-> 0,
      stateNil |-> FALSE, NumChunks |-> 0, ChunksReceived |-> <<>>,
      resuming |-> FALSE, chunkIdx |-> 0, retry |-> 0, result |-> "",
      writerErr |-> FALSE ]

clInit ==
    [ ChunkSize |-> 0, CanResume |-> FALSE, NextCommand |-> 0, hash |-> <<>>,
      result |-> "", errMsg |-> <<>>, verified |-> FALSE,
      data |-> <<>>, retry |-> 0, writerErr |-> FALSE, ctxDone |-> FALSE ]

\* History of one connection: the offsets of the Requests sent and how many
\* of them have been resolved (answered or failed), the reads of Data frames,
\* the frames the receiver sent, the bitmap adopted at the start, the chunks
\* written, the number of bytes the receiver has sent, and for the hash
\* handshake how many of them had been sent when the sender wrote its digest
\* and the position of the byte the sender then took for the verdict command;
\* prev is how the receiver's previous connection ended, waited the time the
\* receiver's pending read has been waiting for a sender that fell silent,
\* commands the bytes the sender took for commands after the negotiation,
\* begunC and begunS the frames the sender and the receiver began to write
\* where writes can fail part-way, answer the sizes of the compressed Data
\* frame a peer has sent last, algo the hash algorithm the receiver announced
\* and digestAlgo the one it computed its own digest with, errors the Error
\* frames that reached the connection.
logInit ==
    [ requests |-> <<>>, resolved |-> 0, data |-> <<>>, frames |-> <<>>,
      loaded |-> <<>>, written |-> {}, sent |-> 0, digestMark |-> 0, verdictPos |-> 0,
      prev |-> "", waited |-> 0, commands |-> <<>>, begunC |-> <<>>, begunS |-> <<>>,
      answer |-> <<>>, algo |-> <<>>, digestAlgo |-> <<>>, errors |-> <<>> ]

\* The second connection before its client has announced a file: the file
\* name and size it announced, the TransferState and the cursor of its
\* handleFileTransfer, and its own files when it announced another name.
otherInit ==
    [ pc |-> "idle", filename |-> <<>>, fileSize |-> 0, ChunksReceived |-> <<>>,
      resuming |-> FALSE, chunkIdx |-> 0, outFile |-> <<>>, stateFile |-> <<>> ]

\* The delay settings left at their defaults (no -adaptive, -delay 10ms) and
\* the NetworkStats built from them; the durations are in milliseconds.
DefaultDelays ==
    [ AdaptiveDelay |-> FALSE, MinDelay |-> DefaultMinDelay, MaxDelay |-> DefaultMaxDelay,
      ChunkDelay |-> DefaultChunkDelay ]

\* slept is the last sleep before a chunk, <<>> when there was none yet or
\* the code did not sleep.
\* Faulty variant of Config.Validate: a retry count of zero is refused.
validateRetriesPositive(c) ==
    IF c.ChunkSize <= 0 THEN <<"chunk size must be positive">>
    ELSE IF c.BufferSize <= 0 THEN <<"buffer size must be positive">>
    ELSE IF c.Workers <= 0 THEN <<"workers must be positive">>
    ELSE IF c.Retries <= 0 THEN <<"retries cannot be negative">>
    ELSE IF c.Timeout <= 0 THEN <<"timeout must be positive">>
    ELSE IF c.AdaptiveDelay /\ (c.MinDelay <= 0 \/ c.MaxDelay <= 0
                                \/ c.MinDelay > c.MaxDelay)
    THEN <<"invalid adaptive delay configuration">>
    ELSE IF ~c.IsServer /\ c.FilePath = ""
    THEN <<"file path is required in client mode">>
    ELSE <<>>

\* Config.Validate: nil (<<>>) or the error of the first failing check.
Validate(c) ==
    IF c.ChunkSize <= 0 THEN <<"chunk size must be positive">>
    ELSE IF c.BufferSize <= 0 THEN <<"buffer size must be positive">>
    ELSE IF c.Workers <= 0 THEN <<"workers must be positive">>
    ELSE IF c.Retries < 0 THEN <<"retries cannot be negative">>
    ELSE IF c.Timeout <= 0 THEN <<"timeout must be positive">>
    ELSE IF c.AdaptiveDelay /\ (c.MinDelay <= 0 \/ c.MaxDelay <= 0
                                \/ c.MinDelay > c.MaxDelay)
    THEN <<"invalid adaptive delay configuration">>
    ELSE IF ~c.IsServer /\ c.FilePath = ""
    THEN <<"file path is required in client mode">>
    ELSE <<>>

\* The settings of a sender started with the default flags and a file.
DefaultConfig ==
    [IsServer |-> FALSE, FilePath |-> "f.txt", ChunkSize |-> 1, BufferSize |-> 1,
     Workers |-> 1, Retries |-> 1, Timeout |-> 1, AdaptiveDelay |-> FALSE,
     MinDelay |-> DefaultMinDelay, MaxDelay |-> DefaultMaxDelay]

\* ParseFlags: the process runs with a configuration that Validate accepted.
startupInit == [config |-> DefaultConfig, checked |-> TRUE, err |-> Validate(DefaultConfig)]

\* No ResumeInfo under study: nothing written, nothing read back.
wireInit == [pc |-> "idle", info |-> <<>>, tail |-> <<>>, bytes |-> <<>>, read |-> <<>>]

\* NetworkProfile as ProfileNetwork sets it up: 100 ms, 10 MiB/s, 2 MiB.
\* rtt is the average of the successful pings in ms, <<>> when none succeeded.
profileInit ==
    [rtt |-> <<>>, done |-> TRUE, RTT |-> ProfileDefaultRTT,
     Bandwidth |-> HighLatencyBandwidth, OptimalChunkSize |-> DefaultChunkSize]

netStatsInit ==
    [ side |-> "sender", cfg |-> DefaultDelays, ns |-> NewNetworkStats(DefaultDelays),
      slept |-> <<>> ]

Init ==
    /\ source \in FileContents
    /\ filePath \in FilePaths
    /\ serverCfg \in [ChunkSize : ChunkSizes, VerifyHash : BOOLEAN, Retries : 1..MaxRetries]
    /\ clientCfg \in [ChunkSize : ChunkSizes, VerifyHash : BOOLEAN, Compression : BOOLEAN]
    /\ outFile = <<>>
    /\ stateFile = <<>>
    /\ c2s = <<>>
    /\ s2c = <<>>
    /\ spc = "accept"
    /\ srv = srvInit
    /\ cpc = "start"
    /\ cl = clInit
    /\ session = 1
    /\ log = logInit
    /\ other = otherInit
    /\ netStats = netStatsInit
    /\ startup = startupInit
    /\ netProfile = profileInit
    /\ wire = wireInit

\* What a side's write adds to its outbound stream: nothing once the peer is gone.
ClientWrites(bytes) == IF SrvClosed THEN c2s ELSE c2s \o bytes

ServerWrites(stream, bytes) == IF CliClosed THEN stream ELSE stream \o bytes

\* Position, in the receiver's outbound stream, of the next byte the sender reads.
NextReadPos == log.sent - Len(s2c) + 1

(***************************************************************************)
(* The sender (package client).                                            *)
(***************************************************************************)
\* adjustConfigForNetwork: a high-latency network replaces cfg.ChunkSize.
adjustConfigForNetwork(chunkSize, profile) ==
    IF profile.RTT > 100 THEN profile.OptimalChunkSize ELSE chunkSize

\* initializeTransfer: Init, filename, file size, verify preference.
initializeTransfer(name, size, verify) ==
    SendCommand(CmdInit) \o SendString(name) \o SendInt64(size) \o SendBool(verify)

\* Run up to negotiateResume.  GetFileInfo's Name is the base name of the
\* path; the model's paths have no directory part.
ClientRun ==
    /\ cpc = "start"
    /\ \E profile \in NetworkProfiles :
          cl' = [cl EXCEPT !.ChunkSize =
                               adjustConfigForNetwork(clientCfg.ChunkSize, profile)]
    /\ c2s' = ClientWrites(initializeTransfer(filePath, Len(source), clientCfg.VerifyHash))
    /\ cpc' = "negotiate"
    /\ UNCHANGED <<env, outFile, stateFile, s2c, spc, srv, session, log>>

ClientExit(c, result, msg) == [c EXCEPT !.result = result, !.errMsg = msg]

\* What one step of the sender comes to: the bytes it consumed and wrote,
\* where it goes on, its variables, and the Data frame it served, if any.
Blocked == [st |-> "block"]

Step(rest, out, pc, c, data) ==
    [st |-> "ok", rest |-> rest, out |-> out, pc |-> pc, cl |-> c, data |-> data]

\* Run returns with the error (or nil) of the step.
Return(rest, result, msg) ==
    Step(rest, <<>>, "exit",
         ClientExit([cl EXCEPT !.NextCommand = 0], result, msg), <<>>)

\* negotiateResume
\* negotiateResume after ReadResumeInfo
resumeDecision(info) ==
    IF info.st = "block" THEN Blocked
    ELSE IF info.st = "panic" THEN Return(info.rest, "panic", <<>>)
    ELSE IF info.st = "err"
    THEN Step(info.rest, SendResumeAck(FALSE), "loop", cl, <<>>)
    ELSE IF /\ info.v.CanResume
            /\ info.v.TotalChunks = NumChunksOf(Len(source), cl.ChunkSize)
    THEN Step(info.rest, SendResumeAck(TRUE), "loop", [cl EXCEPT !.CanResume = TRUE], <<>>)
    ELSE Step(info.rest, SendResumeAck(FALSE), "loop", cl, <<>>)

\* negotiateResume after its first ReadCommand: a command other than Resume
\* is kept for handleServerRequests.
resumeCommand(cmd, eof) ==
    IF cmd.st = "block" THEN Blocked
    ELSE IF cmd.st = "err" THEN Return(cmd.rest, "error", <<>>)
    ELSE IF cmd.v # CmdResume
    THEN Step(cmd.rest, <<>>, "loop", [cl EXCEPT !.NextCommand = cmd.v], <<>>)
    ELSE resumeDecision(ReadResumeInfo(cmd.rest, eof))

negotiateResume(s, eof) == resumeCommand(ReadCommand(s, eof), eof)

ClientNegotiate ==
    /\ cpc = "negotiate"
    /\ LET r == negotiateResume(s2c, SrvClosed)
       IN  /\ r.st # "block"
           /\ s2c' = r.rest
           /\ c2s' = ClientWrites(r.out)
           /\ cpc' = r.pc
           /\ cl' = r.cl
    /\ UNCHANGED <<env, outFile, stateFile, spc, srv, session, log>>

\* sendChunkData with sendCompressedChunk / sendUncompressedChunk
sendChunkData(data) ==
    SendCommand(CmdData) \o SendInt64(Len(data)) \o
    ( IF clientCfg.Compression /\ ShouldCompress(filePath)
      THEN LET compressedData == CompressData(data)
           IN  SendCommand(1) \o SendInt64(Len(compressedData)) \o compressedData
      ELSE SendCommand(0) \o data )

\* The compression_flag byte of a Data frame that announces size bytes.
FrameFlag(frame, size) == frame[Len(SendCommand(CmdData) \o SendInt64(size)) + 1]

\* handleChunkRequest and sendChunk: the buffer from the pool has
\* cfg.ChunkSize bytes; ReadAt fills as much of it as the file has.
chunkReply(offset) ==
    IF offset.st = "block" THEN Blocked
    ELSE IF offset.st = "err" \/ offset.v < 0 THEN Return(offset.rest, "error", <<>>)
    ELSE Step(offset.rest, sendChunkData(ReadAt(source, cl.ChunkSize, offset.v)),
              "loop", [cl EXCEPT !.NextCommand = 0],
              <<[offset |-> offset.v,
                 size |-> Len(ReadAt(source, cl.ChunkSize, offset.v)),
                 flag |-> FrameFlag(sendChunkData(ReadAt(source, cl.ChunkSize, offset.v)),
                                    Len(ReadAt(source, cl.ChunkSize, offset.v)))]>>)

handleChunkRequest(s, eof) == chunkReply(ReadInt64(s, eof))

\* handleHashRequest up to the flush of the digest; the wait for the verdict
\* is ClientVerdict.
hashReply(rest, hash) ==
    Step(rest, SendCommand(CmdHash) \o SendString(hash), "verdict",
         [cl EXCEPT !.NextCommand = 0, !.hash = hash], <<>>)

algorithmReply(algorithm) ==
    IF algorithm.st = "block" THEN Blocked
    ELSE IF algorithm.st = "err" THEN Return(algorithm.rest, "error", <<>>)
    ELSE hashReply(algorithm.rest, CalculateFileHashWithAlgorithm(source, algorithm.v))

handleHashRequest(s, eof) == algorithmReply(ReadHashAlgorithm(s, eof))

handleLegacyHashRequest(s) == hashReply(s, CalculateFileHash(source))

\* One turn of the loop of handleServerRequests: take the command left by
\* negotiateResume or read one, and dispatch it.
\* The Error frame's message, then the return with it.
errorFrame(msg) ==
    IF msg.st = "block" THEN Blocked ELSE Return(msg.rest, "error", msg.v)

\* The switch of handleServerRequests.
dispatch(cmd, eof) ==
    IF cmd.st = "block" THEN Blocked
    ELSE IF cmd.st = "err" THEN Return(cmd.rest, "error", <<>>)
    ELSE CASE cmd.v = CmdRequest -> handleChunkRequest(cmd.rest, eof)
           [] cmd.v = CmdHashAlgo -> handleHashRequest(cmd.rest, eof)
           [] cmd.v = CmdHash -> handleLegacyHashRequest(cmd.rest)
           [] cmd.v = CmdComplete -> Return(cmd.rest, "success", <<>>)
           [] cmd.v = CmdError -> errorFrame(ReadString(cmd.rest, eof))
           [] OTHER -> Return(cmd.rest, "error", <<>>)

handleServerRequests(s, eof) ==
    dispatch(IF cl.NextCommand # 0 THEN Ok(cl.NextCommand, s) ELSE ReadCommand(s, eof),
             eof)

ClientCommand ==
    /\ cpc = "loop"
    /\ LET r == handleServerRequests(s2c, SrvClosed)
           cmd == IF cl.NextCommand # 0 THEN Ok(cl.NextCommand, s2c)
                  ELSE ReadCommand(s2c, SrvClosed)
       IN  /\ r.st # "block"
           /\ s2c' = r.rest
           /\ c2s' = ClientWrites(r.out)
           /\ cpc' = r.pc
           /\ cl' = r.cl
           /\ log' = [log EXCEPT !.data = @ \o r.data,
                                 !.digestMark = IF r.pc = "verdict" THEN log.sent ELSE @,
                                 !.commands = IF cmd.st = "ok" THEN @ \o <<cmd.v>> ELSE @]
    /\ UNCHANGED <<env, outFile, stateFile, spc, srv, session>>

HashVerified == <<72,65,83,72,95,86,69,82,73,70,73,69,68>>

\* The end of handleHashRequest / handleLegacyHashRequest: the sender waits
\* for the receiver's verdict.
verdictMessage(cmd, msg) ==
    IF msg.st = "block" THEN Blocked
    ELSE IF cmd = CmdError \/ msg.st = "err" THEN Return(msg.rest, "error", <<>>)
    ELSE Step(msg.rest, <<>>, "loop", [cl EXCEPT !.verified = (msg.v = HashVerified)],
              <<>>)

verdictCommand(cmd, eof) ==
    IF cmd.st = "block" THEN Blocked
    ELSE IF cmd.st = "err" THEN Return(cmd.rest, "error", <<>>)
    ELSE IF cmd.v \in {CmdError, CmdHash}
    THEN verdictMessage(cmd.v, ReadString(cmd.rest, eof))
    ELSE Return(cmd.rest, "error", <<>>)

hashVerdict(s, eof) == verdictCommand(ReadCommand(s, eof), eof)

ClientVerdict ==
    /\ cpc = "verdict"
    /\ LET r == hashVerdict(s2c, SrvClosed)
       IN  /\ r.st # "block"
           /\ s2c' = r.rest
           /\ cpc' = r.pc
           /\ cl' = r.cl
           /\ log' = [log EXCEPT !.verdictPos = NextReadPos,
                                 !.commands = IF ReadCommand(s2c, SrvClosed).st = "ok"
                                              THEN @ \o <<ReadCommand(s2c, SrvClosed).v>>
                                              ELSE @]
    /\ UNCHANGED <<env, outFile, stateFile, c2s, spc, srv, session>>

(***************************************************************************)
(* The receiver (package server).                                          *)
(***************************************************************************)
MsgUnknownCommand == <<85,110,107,110,111,119,110,32,99,111,109,109,97,110,100>>

MsgReadFilename ==
    <<70,97,105,108,101,100,32,116,111,32,114,101,97,100,32,102,105,108,101,110,97,
      109,101>>

MsgReadFileSize ==
    <<70,97,105,108,101,100,32,116,111,32,114,101,97,100,32,102,105,108,101,32,115,
      105,122,101>>

MsgReadVerify ==
    <<70,97,105,108,101,100,32,116,111,32,114,101,97,100,32,118,101,114,105,102,105,
      99,97,116,105,111,110,32,112,114,101,102,101,114,101,110,99,101>>

MsgInvalidFileSize == <<73,110,118,97,108,105,100,32,102,105,108,101,32,115,105,122,101>>

MsgResumeFailed ==
    <<82,101,115,117,109,101,32,110,101,103,111,116,105,97,116,105,111,110,32,102,97,
      105,108,101,100>>

MsgFileCreation ==
    <<70,105,108,101,32,99,114,101,97,116,105,111,110,32,102,97,105,108,101,100>>

MsgTransferFailed == <<84,114,97,110,115,102,101,114,32,102,97,105,108,101,100>>

MsgHashFailed ==
    <<72,97,115,104,32,118,101,114,105,102,105,99,97,116,105,111,110,32,102,97,105,
      108,101,100>>

\* fmt.Sprintf("Hash mismatch (%s): source=%s, received=%s", ...)
MsgHashMismatch(algorithm, sourceHash, receivedHash) ==
    <<72,97,115,104,32,109,105,115,109,97,116,99,104,32,40>> \o algorithm \o
    <<41,58,32,115,111,117,114,99,101,61>> \o sourceHash \o
    <<44,32,114,101,99,101,105,118,101,100,61>> \o receivedHash

RECURSIVE ErrorsIn(_, _)
\* The Error frames that make up bytes, written from stream position at on:
\* the message of each and the position of its last byte.
ErrorsIn(bytes, at) ==
    IF bytes = <<>> THEN <<>>
    ELSE <<[message |-> SubSeq(bytes, 2, IndexOf(bytes, 10) - 1),
            end |-> at + IndexOf(bytes, 10)]>>
         \o ErrorsIn(Drop(bytes, IndexOf(bytes, 10)), at + IndexOf(bytes, 10))

\* The history after the receiver wrote bytes that make up the named frames.
Sent(l, bytes, frames) ==
    [l EXCEPT !.sent = @ + (IF CliClosed THEN 0 ELSE Len(bytes)),
              !.frames = @ \o frames,
              !.errors = IF CliClosed \/ frames = <<>> \/ frames[1] # "Error" THEN @
                         ELSE @ \o ErrorsIn(bytes, l.sent)]

\* The receiver leaves handleConnection: the deferred conn.Close().
SrvClose(result) == [srv EXCEPT !.result = result]

\* handleConnection: the command loop before a transfer.
SrvAccept ==
    /\ spc = "accept"
    /\ LET cmd == ReadCommand(c2s, CliClosed)
       IN  /\ cmd.st # "block"
           /\ c2s' = cmd.rest
           /\ IF cmd.st = "err"
              THEN /\ spc' = "closed"
                   /\ srv' = SrvClose("error")
                   /\ UNCHANGED <<s2c, log>>
              ELSE IF cmd.v = CmdInit
              THEN /\ spc' = "metadata"
                   /\ UNCHANGED <<srv, s2c, log>>
              ELSE IF cmd.v = CmdPing
              THEN /\ s2c' = ServerWrites(s2c, SendCommand(CmdPong))
                   /\ log' = Sent(log, SendCommand(CmdPong), <<"Pong">>)
                   /\ UNCHANGED <<spc, srv>>
              ELSE /\ s2c' = ServerWrites(s2c, SendError(MsgUnknownCommand))
                   /\ log' = Sent(log, SendError(MsgUnknownCommand), <<"Error">>)
                   /\ spc' = "closed"
                   /\ srv' = SrvClose("error")
    /\ UNCHANGED <<env, outFile, stateFile, cpc, cl, session>>

\* filepath.Base for slash-separated names without trailing slashes.
Base(name) ==
    IF \E i \in 1..Len(name) : name[i] = 47
    THEN LET i == CHOOSE k \in 1..Len(name) :
                      name[k] = 47 /\ \A j \in (k + 1)..Len(name) : name[j] # 47
         IN  Drop(name, i)
    ELSE name

FreshState(filename, fileSize, chunkSize, numChunks) ==
    [ Filename |-> filename, FileSize |-> fileSize, ChunkSize |-> chunkSize,
      NumChunks |-> numChunks, ChunksReceived |-> [i \in 1..numChunks |-> FALSE],
      corrupt |-> FALSE ]

\* A state file whose JSON does not parse (a save cut short).
CorruptState ==
    [ Filename |-> <<>>, FileSize |-> 0, ChunkSize |-> 0, NumChunks |-> 0,
      ChunksReceived |-> <<>>, corrupt |-> TRUE ]

\* LoadTransferState: <<state>>, or <<>> when the file is missing or unreadable.
LoadTransferState(file) == IF file = <<>> \/ file[1].corrupt THEN <<>> ELSE file

\* tryResumeTransfer: the state to use and whether the transfer resumes.
tryResumeFrom(file, filename, chunkSize, fileSize, numChunks) ==
    LET loaded == LoadTransferState(file)
    IN  IF loaded = <<>>
        THEN [state |-> FreshState(filename, fileSize, chunkSize, numChunks),
              resuming |-> FALSE]
        ELSE IF /\ loaded[1].FileSize = fileSize
                /\ loaded[1].ChunkSize = chunkSize
                /\ Len(loaded[1].ChunksReceived) = numChunks
        THEN [state |-> loaded[1], resuming |-> TRUE]
        ELSE [state |-> FreshState(filename, fileSize, chunkSize, numChunks),
              resuming |-> FALSE]

\* tryResumeTransfer of the modelled connection: the state file of its basename.
tryResumeTransfer(filename, chunkSize, fileSize, numChunks) ==
    tryResumeFrom(stateFile, filename, chunkSize, fileSize, numChunks)

\* calculateResumeOffset
calculateResumeOffset(state) ==
    Cardinality({ i \in 1..Len(state.ChunksReceived) : state.ChunksReceived[i] })
        * state.ChunkSize

\* sendResumeInfoToClient
sendResumeInfoToClient(state, resuming, numChunks) ==
    SendResumeInfo(
        IF resuming
        THEN [CanResume |-> TRUE, TotalChunks |-> numChunks,
              ResumeOffset |-> calculateResumeOffset(state),
              CompletedChunks |->
                  [i \in 1..numChunks |->
                      i <= Len(state.ChunksReceived) /\ state.ChunksReceived[i]]]
        ELSE [CanResume |-> FALSE, TotalChunks |-> numChunks, ResumeOffset |-> 0,
              CompletedChunks |-> <<>>])

\* The three reads at the head of handleFileTransfer: the message of the
\* Error frame when one fails, <<>> when all succeed.
\* A failed read of the metadata names the message of its Error frame.
OrFail(r, fail, F(_)) ==
    IF r.st = "ok" THEN F(r) ELSE [st |-> r.st, rest |-> r.rest, fail |-> fail]

readMetadata(s, eof) ==
    OrFail(ReadString(s, eof), MsgReadFilename, LAMBDA filename :
    OrFail(ReadInt64(filename.rest, eof), MsgReadFileSize, LAMBDA fileSize :
    OrFail(ReadBool(fileSize.rest, eof), MsgReadVerify, LAMBDA verify :
        IF fileSize.v <= 0
        THEN [st |-> "err", rest |-> verify.rest, fail |-> MsgInvalidFileSize]
        ELSE [st |-> "ok", rest |-> verify.rest, fail |-> <<>>,
              filename |-> Base(filename.v), fileSize |-> fileSize.v,
              verify |-> verify.v])))

\* Faulty variant of shouldVerifyHash: the client's preference is not consulted.
verifyWhenServerWants(cfgVerifyHash, clientWantsVerification) == cfgVerifyHash

\* handleFileTransfer: shouldVerifyHash := cfg.VerifyHash && clientWantsVerification
shouldVerifyHash(cfgVerifyHash, clientWantsVerification) ==
    cfgVerifyHash /\ clientWantsVerification

\* handleFileTransfer from its first read to the Resume frame.
SrvReadMetadata ==
    /\ spc = "metadata"
    /\ LET m == readMetadata(c2s, CliClosed)
           numChunks == NumChunksOf(m.fileSize, serverCfg.ChunkSize)
           t == tryResumeTransfer(m.filename, serverCfg.ChunkSize, m.fileSize, numChunks)
           info == sendResumeInfoToClient(t.state, t.resuming, numChunks)
       IN  /\ m.st # "block"
           /\ c2s' = m.rest
           /\ IF m.st = "err"
              THEN /\ s2c' = ServerWrites(s2c, SendError(m.fail))
                   /\ log' = Sent(log, SendError(m.fail), <<"Error">>)
                   /\ spc' = "closed"
                   /\ srv' = SrvClose("error")
              ELSE /\ s2c' = ServerWrites(s2c, info)
                   /\ log' = [Sent(log, info, <<"Resume">>) EXCEPT
                                 !.loaded = t.state.ChunksReceived]
                   /\ spc' = "resume"
                   /\ srv' = [srv EXCEPT
                                 !.filename = m.filename,
                                 !.fileSize = m.fileSize,
                                 !.shouldVerifyHash =
                                     shouldVerifyHash(serverCfg.VerifyHash, m.verify),
                                 !.numChunks = numChunks,
                                 !.NumChunks = t.state.NumChunks,
                                 !.ChunksReceived = t.state.ChunksReceived,
                                 !.resuming = t.resuming]
    /\ UNCHANGED <<env, outFile, stateFile, cpc, cl, session>>

\* waitForResumeDecision
waitForResumeDecision(s, eof) ==
    Then(ReadCommand(s, eof), LAMBDA cmd :
        IF cmd.v # CmdResumeAck THEN Err(cmd.rest) ELSE ReadResumeAck(cmd.rest, eof))

\* handleFileTransfer: the client's decision; a rejected resume drops the
\* state (transferState = nil) and goes on to discard the partial file.
SrvResumeDecision ==
    /\ spc = "resume"
    /\ LET d == waitForResumeDecision(c2s, CliClosed)
       IN  /\ d.st # "block"
           /\ c2s' = d.rest
           /\ IF d.st = "err"
              THEN /\ s2c' = ServerWrites(s2c, SendError(MsgResumeFailed))
                   /\ log' = Sent(log, SendError(MsgResumeFailed), <<"Error">>)
                   /\ spc' = "closed"
                   /\ srv' = SrvClose("error")
              ELSE IF srv.resuming /\ ~d.v
              THEN /\ srv' = [srv EXCEPT !.resuming = FALSE, !.stateNil = TRUE]
                   /\ spc' = "discardFile"
                   /\ UNCHANGED <<s2c, log>>
              ELSE /\ spc' = "open"
                   /\ UNCHANGED <<srv, s2c, log>>
    /\ UNCHANGED <<env, outFile, stateFile, cpc, cl, session>>

\* os.Remove(outputPath) after a rejected resume
SrvDiscardFile ==
    /\ spc = "discardFile"
    /\ outFile' = <<>>
    /\ spc' = "discardState"
    /\ UNCHANGED <<env, stateFile, c2s, s2c, srv, cpc, cl, session, log>>

\* Faulty variant of RemoveTransferState: the file stays.
stateKept(file) == file

\* RemoveTransferState: removing a missing file is no error.
RemoveTransferState(file) == <<>>

\* filesystem.RemoveTransferState after a rejected resume
SrvDiscardState ==
    /\ spc = "discardState"
    /\ stateFile' = RemoveTransferState(stateFile)
    /\ spc' = "open"
    /\ UNCHANGED <<env, outFile, c2s, s2c, srv, cpc, cl, session, log>>

\* createOrOpenOutputFile: O_RDWR keeps an existing file when resuming;
\* os.Create makes the file empty.
createOrOpenOutputFile(file, resuming) ==
    IF resuming /\ file # <<>> THEN file ELSE << <<>> >>

SrvOpenOutput ==
    /\ spc = "open"
    /\ outFile' = createOrOpenOutputFile(outFile, srv.resuming)
    /\ spc' = IF srv.resuming THEN "chunks" ELSE "preallocate"
    /\ UNCHANGED <<env, stateFile, c2s, s2c, srv, cpc, cl, session, log>>

SrvPreallocate ==
    /\ spc = "preallocate"
    /\ outFile' = <<PreallocateFile(outFile[1], srv.fileSize)>>
    /\ spc' = "chunks"
    /\ UNCHANGED <<env, stateFile, c2s, s2c, srv, cpc, cl, session, log>>

\* The TransferState held by processChunks, as SaveTransferState writes it.
TransferState ==
    [ Filename |-> srv.filename, FileSize |-> srv.fileSize,
      ChunkSize |-> serverCfg.ChunkSize, NumChunks |-> srv.NumChunks,
      ChunksReceived |-> srv.ChunksReceived, corrupt |-> FALSE ]

\* Faulty variant of SaveTransferState: the state file is left as it was.
SaveSkipped(state) == stateFile

SaveTransferState(state) == <<state>>

\* Faulty variant of alreadyReceived: the bitmap is not consulted.
neverReceived(chunksReceived, chunkIdx) == FALSE

\* processChunks: if state.ChunksReceived[chunkIdx] { continue }
alreadyReceived(chunksReceived, chunkIdx) == chunksReceived[chunkIdx + 1]

\* Faulty variant of hashMismatch: the digests are not compared.
mismatchIgnored(sourceHash, receivedHash) == FALSE

\* verifyFileHash: if sourceHash != receivedHash
hashMismatch(sourceHash, receivedHash) == sourceHash # receivedHash

\* processChunks is entered with transferState = nil after a rejected
\* resume: the loop condition state.NumChunks dereferences nil and the
\* process dies of the panic.
SrvNilState ==
    /\ spc = "chunks"
    /\ srv.stateNil
    /\ spc' = "panicked"
    /\ srv' = SrvClose("panic")
    /\ UNCHANGED <<env, outFile, stateFile, c2s, s2c, cpc, cl, session, log>>

\* processChunks: a chunk already received is skipped.
SrvSkipChunk ==
    /\ spc = "chunks"
    /\ ~srv.stateNil
    /\ srv.chunkIdx < srv.NumChunks
    /\ alreadyReceived(srv.ChunksReceived, srv.chunkIdx)
    /\ srv' = [srv EXCEPT !.chunkIdx = @ + 1]
    /\ UNCHANGED <<env, outFile, stateFile, c2s, s2c, spc, cpc, cl, session, log>>

\* Faulty variant of attemptsLeft: one attempt too many.
attemptsLeftInclusive(retry, retries) == retry <= retries

\* receiveChunkWithRetries: for retry := 0; retry < cfg.Retries; retry++
attemptsLeft(retry, retries) == retry < retries

\* Faulty variant of SrvSendRequest: the Request is sent and the cursor moves
\* on without waiting for the Data frame.
SrvSendRequestPipelined ==
    /\ spc = "chunks"
    /\ ~srv.stateNil
    /\ srv.chunkIdx < srv.NumChunks
    /\ LET offset == srv.chunkIdx * serverCfg.ChunkSize
           frame == SendCommand(CmdRequest) \o SendInt64(offset)
       IN  /\ s2c' = ServerWrites(s2c, frame)
           /\ log' = [Sent(log, frame, <<"Request">>) EXCEPT !.requests = @ \o <<offset>>]
    /\ srv' = [srv EXCEPT !.chunkIdx = @ + 1]
    /\ UNCHANGED <<env, outFile, stateFile, c2s, spc, cpc, cl, session>>

\* receiveChunkWithRetries / receiveChunk: one attempt begins with a Request
\* for the offset of the current chunk.
SrvSendRequest ==
    /\ spc = "chunks"
    /\ ~srv.stateNil
    /\ srv.chunkIdx < srv.NumChunks
    /\ ~alreadyReceived(srv.ChunksReceived, srv.chunkIdx)
    /\ attemptsLeft(srv.retry, serverCfg.Retries)
    /\ LET offset == srv.chunkIdx * serverCfg.ChunkSize
           frame == SendCommand(CmdRequest) \o SendInt64(offset)
       IN  /\ s2c' = ServerWrites(s2c, frame)
           /\ log' = [Sent(log, frame, <<"Request">>) EXCEPT !.requests = @ \o <<offset>>]
    /\ spc' = "data"
    /\ UNCHANGED <<env, outFile, stateFile, c2s, srv, cpc, cl, session>>

\* Faulty variant of SrvRetriesExhausted: the chunk that failed is marked
\* received before the state is saved.
SrvRetriesExhaustedMarked ==
    /\ spc = "chunks"
    /\ ~srv.stateNil
    /\ srv.chunkIdx < srv.NumChunks
    /\ ~alreadyReceived(srv.ChunksReceived, srv.chunkIdx)
    /\ ~attemptsLeft(srv.retry, serverCfg.Retries)
    /\ LET marked == [srv EXCEPT !.ChunksReceived[srv.chunkIdx + 1] = TRUE]
       IN  /\ stateFile' = SaveTransferState(
                               [TransferState EXCEPT
                                   !.ChunksReceived = marked.ChunksReceived])
           /\ srv' = [marked EXCEPT !.result = "error"]
    /\ s2c' = ServerWrites(s2c, SendError(MsgTransferFailed))
    /\ log' = Sent(log, SendError(MsgTransferFailed), <<"Error">>)
    /\ spc' = "closed"
    /\ UNCHANGED <<env, outFile, c2s, cpc, cl, session>>

\* receiveChunkWithRetries ran out of attempts: processChunks saves the
\* state, handleFileTransfer sends the Error frame and returns.
SrvRetriesExhausted ==
    /\ spc = "chunks"
    /\ ~srv.stateNil
    /\ srv.chunkIdx < srv.NumChunks
    /\ ~alreadyReceived(srv.ChunksReceived, srv.chunkIdx)
    /\ ~attemptsLeft(srv.retry, serverCfg.Retries)
    /\ stateFile' = SaveTransferState(TransferState)
    /\ s2c' = ServerWrites(s2c, SendError(MsgTransferFailed))
    /\ log' = Sent(log, SendError(MsgTransferFailed), <<"Error">>)
    /\ spc' = "closed"
    /\ srv' = SrvClose("error")
    /\ UNCHANGED <<env, outFile, c2s, cpc, cl, session>>

\* receiveCompressedChunk: make([]byte, compressedSize) panics on a
\* negative size.
receiveCompressedChunk(s, eof, expectedSize) ==
    Then(ReadInt64(s, eof), LAMBDA compressedSize :
        IF compressedSize.v < 0
        THEN [st |-> "panic", v |-> <<>>, rest |-> compressedSize.rest]
        ELSE Then(ReadFull(compressedSize.rest, compressedSize.v, eof),
                  LAMBDA compressedData :
                      Then(DecompressData(compressedData.v, expectedSize),
                           LAMBDA data : Ok(data.v, compressedData.rest))))

receiveUncompressedChunk(s, eof, size) == ReadFull(s, size, eof)

\* Faulty variant of receiveChunk: an announced size above the chunk size
\* is let through.
receiveChunkAnySize(s, eof, chunkSize) ==
    Then(ReadCommand(s, eof), LAMBDA cmdByte :
        IF cmdByte.v # CmdData THEN Err(cmdByte.rest)
        ELSE Then(ReadInt64(cmdByte.rest, eof), LAMBDA actualChunkSize :
            IF actualChunkSize.v <= 0
            THEN Err(actualChunkSize.rest)
            ELSE Then(ReadCommand(actualChunkSize.rest, eof), LAMBDA compressFlag :
                IF compressFlag.v = 1
                THEN receiveCompressedChunk(compressFlag.rest, eof, actualChunkSize.v)
                ELSE receiveUncompressedChunk(compressFlag.rest, eof,
                                              actualChunkSize.v))))

\* receiveChunk after the Request was flushed: the reads of the answer.
receiveChunk(s, eof, chunkSize) ==
    Then(ReadCommand(s, eof), LAMBDA cmdByte :
        IF cmdByte.v # CmdData THEN Err(cmdByte.rest)
        ELSE Then(ReadInt64(cmdByte.rest, eof), LAMBDA actualChunkSize :
            IF actualChunkSize.v <= 0 \/ actualChunkSize.v > chunkSize
            THEN Err(actualChunkSize.rest)
            ELSE Then(ReadCommand(actualChunkSize.rest, eof), LAMBDA compressFlag :
                IF compressFlag.v = 1
                THEN receiveCompressedChunk(compressFlag.rest, eof, actualChunkSize.v)
                ELSE receiveUncompressedChunk(compressFlag.rest, eof,
                                              actualChunkSize.v))))

\* The answer to a Request: written at the chunk's offset on success, one
\* more failed attempt otherwise.
SrvReceiveChunk ==
    /\ spc = "data"
    /\ LET r == receiveChunk(c2s, CliClosed, serverCfg.ChunkSize)
           offset == srv.chunkIdx * serverCfg.ChunkSize
       IN  /\ r.st # "block"
           /\ c2s' = r.rest
           /\ IF r.st = "ok"
              THEN /\ outFile' = <<WriteAt(outFile[1], r.v, offset)>>
                   /\ spc' = "written"
                   /\ log' = [log EXCEPT !.resolved = @ + 1,
                                         !.written = @ \cup {srv.chunkIdx}]
                   /\ UNCHANGED srv
              ELSE IF r.st = "panic"
              THEN /\ spc' = "panicked"
                   /\ srv' = SrvClose("panic")
                   /\ log' = [log EXCEPT !.resolved = @ + 1]
                   /\ UNCHANGED outFile
              ELSE /\ spc' = "chunks"
                   /\ srv' = [srv EXCEPT !.retry = @ + 1]
                   /\ log' = [log EXCEPT !.resolved = @ + 1]
                   /\ UNCHANGED outFile
    /\ UNCHANGED <<env, stateFile, s2c, cpc, cl, session>>

\* processChunks after a successful receive: mark the chunk, save the state,
\* move to the next chunk.
SrvMarkReceived ==
    /\ spc = "written"
    /\ LET marked == [srv EXCEPT !.ChunksReceived[srv.chunkIdx + 1] = TRUE]
       IN  /\ stateFile' = SaveTransferState(
                               [TransferState EXCEPT
                                   !.ChunksReceived = marked.ChunksReceived])
           /\ srv' = [marked EXCEPT !.chunkIdx = @ + 1, !.retry = 0]
    /\ spc' = "chunks"
    /\ UNCHANGED <<env, outFile, c2s, s2c, cpc, cl, session, log>>

\* verifyFileHash up to its flush: HashAlgo <name>, then the Hash request.
SrvStartVerify ==
    /\ spc = "chunks"
    /\ ~srv.stateNil
    /\ srv.chunkIdx >= srv.NumChunks
    /\ srv.shouldVerifyHash
    /\ LET frames == SendHashAlgorithm(SelectHashAlgorithm(srv.fileSize))
                         \o SendCommand(CmdHash)
       IN  /\ s2c' = ServerWrites(s2c, frames)
           /\ log' = [Sent(log, frames, <<"HashAlgo", "Hash">>) EXCEPT
                         !.algo = <<SelectHashAlgorithm(srv.fileSize)>>]
    /\ spc' = "hash"
    /\ UNCHANGED <<env, outFile, stateFile, c2s, srv, cpc, cl, session>>

SrvSkipVerify ==
    /\ spc = "chunks"
    /\ ~srv.stateNil
    /\ srv.chunkIdx >= srv.NumChunks
    /\ ~srv.shouldVerifyHash
    /\ spc' = "cleanup"
    /\ UNCHANGED <<env, outFile, stateFile, c2s, s2c, srv, cpc, cl, session, log>>

\* verifyFileHash: the reads of the client's reply.
readSourceHash(s, eof) ==
    Then(ReadCommand(s, eof), LAMBDA cmdByte :
        IF cmdByte.v # CmdHash THEN Err(cmdByte.rest)
        ELSE ReadString(cmdByte.rest, eof))

\* Faulty variant of digestAlgorithm: the receiver's digest is the legacy MD5.
legacyAlgorithm(algorithm) == HashMD5

\* verifyFileHash hashes the received file "using the same algorithm": the
\* variable it announced.
digestAlgorithm(algorithm) == algorithm

\* verifyFileHash from the client's reply on, and what handleFileTransfer
\* does with its result: any error removes the output file and sends
\* "Hash verification failed"; a mismatch has sent its own Error frame first.
SrvVerify ==
    /\ spc = "hash"
    /\ LET sourceHash == readSourceHash(c2s, CliClosed)
           algorithm == SelectHashAlgorithm(srv.fileSize)
           receivedHash == CalculateFileHashWithAlgorithm(outFile[1],
                                                          digestAlgorithm(algorithm))
           digested(l) == [l EXCEPT !.digestAlgo = <<digestAlgorithm(algorithm)>>]
           mismatch == SendError(MsgHashMismatch(algorithm, sourceHash.v, receivedHash))
           verified == SendCommand(CmdHash) \o SendString(HashVerified)
       IN  /\ sourceHash.st # "block"
           /\ c2s' = sourceHash.rest
           /\ IF sourceHash.st = "err"
              THEN /\ outFile' = <<>>
                   /\ s2c' = ServerWrites(s2c, SendError(MsgHashFailed))
                   /\ log' = Sent(log, SendError(MsgHashFailed), <<"Error">>)
                   /\ spc' = "closed"
                   /\ srv' = SrvClose("error")
              ELSE IF hashMismatch(sourceHash.v, receivedHash)
              THEN /\ outFile' = <<>>
                   /\ s2c' = ServerWrites(s2c, mismatch \o SendError(MsgHashFailed))
                   /\ log' = digested(Sent(log, mismatch \o SendError(MsgHashFailed),
                                           <<"Error", "Error">>))
                   /\ spc' = "closed"
                   /\ srv' = SrvClose("mismatch")
              ELSE /\ s2c' = ServerWrites(s2c, verified)
                   /\ log' = digested(Sent(log, verified, <<"Verified">>))
                   /\ spc' = "cleanup"
                   /\ UNCHANGED <<outFile, srv>>
    /\ UNCHANGED <<env, stateFile, cpc, cl, session>>

\* handleFileTransfer: cleanup and completion.
SrvComplete ==
    /\ spc = "cleanup"
    /\ stateFile' = RemoveTransferState(stateFile)
    /\ s2c' = ServerWrites(s2c, SendCommand(CmdComplete))
    /\ log' = Sent(log, SendCommand(CmdComplete), <<"Complete">>)
    /\ spc' = "closed"
    /\ srv' = SrvClose("complete")
    /\ UNCHANGED <<env, outFile, c2s, cpc, cl, session>>

(***************************************************************************)
(* The environment: the receiver or the sender process is killed, and both *)
(* programs are started again with the same files and settings.           *)
(***************************************************************************)
\* A kill while SaveTransferState is rewriting the state file can leave it
\* truncated (os.WriteFile truncates, then writes).
Kill ==
    /\ ~SrvClosed
    /\ spc' = "killed"
    /\ srv' = SrvClose("killed")
    /\ \/ UNCHANGED stateFile
       \/ /\ spc = "written"
          /\ stateFile' = <<CorruptState>>
    /\ UNCHANGED <<env, outFile, c2s, s2c, cpc, cl, session, log>>

\* The sender process is killed, or its connection is lost: its socket
\* closes and the receiver's pending and later reads fail.
SenderKill ==
    /\ cpc \in {"negotiate", "loop", "verdict"}
    /\ cpc' = "exit"
    /\ cl' = ClientExit([cl EXCEPT !.NextCommand = 0], "killed", <<>>)
    /\ UNCHANGED <<env, outFile, stateFile, c2s, s2c, spc, srv, session, log>>

NextSession ==
    /\ SrvClosed
    /\ CliClosed
    /\ session < MaxSessions
    /\ session' = session + 1
    /\ c2s' = <<>>
    /\ s2c' = <<>>
    /\ spc' = "accept"
    /\ srv' = srvInit
    /\ cpc' = "start"
    /\ cl' = clInit
    /\ log' = [logInit EXCEPT !.prev = srv.result]
    /\ UNCHANGED <<env, outFile, stateFile>>

Sender == ClientRun \/ ClientNegotiate \/ ClientCommand \/ ClientVerdict

Receiver ==
    \/ SrvAccept
    \/ SrvReadMetadata
    \/ SrvResumeDecision
    \/ SrvDiscardFile
    \/ SrvDiscardState
    \/ SrvOpenOutput
    \/ SrvPreallocate
    \/ SrvNilState
    \/ SrvSkipChunk
    \/ SrvSendRequest
    \/ SrvRetriesExhausted
    \/ SrvReceiveChunk
    \/ SrvMarkReceived
    \/ SrvStartVerify
    \/ SrvSkipVerify
    \/ SrvVerify
    \/ SrvComplete

Next == Sender \/ Receiver \/ Kill \/ SenderKill \/ NextSession

Spec == Init /\ [][Next]_vars

(***************************************************************************)
(* A sender that falls silent.  The sender stops after it sent Init and    *)
(* keeps its connection open; time passes while the receiver waits in a    *)
(* read; the receiver's and the sender's steps are scheduled fairly.       *)
(***************************************************************************)
\* cfg.Timeout in ticks of the clock; the clock is followed one tick past it.
Timeout == MaxWait - 1

\* The sender stops sending (suspended, or the network between the two goes
\* silent) without closing its socket.
SenderStall ==
    /\ cpc \in {"negotiate", "loop", "verdict"}
    /\ cpc' = "stalled"
    /\ UNCHANGED <<env, outFile, stateFile, c2s, s2c, spc, srv, cl, session, log>>

\* handleConnection reads the first command under
\* context.WithTimeout(context.Background(), cfg.Timeout): with no byte to
\* read the deadline passes and the connection is closed.  handleFileTransfer
\* reads under context.Background() on a connection whose deadline was
\* disabled: none of its reads has a deadline.
SrvAcceptTimeout ==
    /\ spc = "accept"
    /\ c2s = <<>>
    /\ ~CliClosed
    /\ spc' = "closed"
    /\ srv' = SrvClose("error")
    /\ UNCHANGED <<env, outFile, stateFile, c2s, s2c, cpc, cl, session, log>>

\* The receiver is in a read of handleFileTransfer for which too few bytes
\* have arrived.
PendingRead ==
    CASE spc = "metadata" -> readMetadata(c2s, CliClosed).st = "block"
      [] spc = "resume" -> waitForResumeDecision(c2s, CliClosed).st = "block"
      [] spc = "data" -> receiveChunk(c2s, CliClosed, serverCfg.ChunkSize).st = "block"
      [] spc = "hash" -> readSourceHash(c2s, CliClosed).st = "block"
      [] OTHER -> FALSE

\* Time passes while the receiver waits for the silent sender.  The reads of
\* handleFileTransfer (ReadString, ReadInt64, ReadBool, ReadCommand,
\* ReadWithContext under ctx := context.Background()) return on data, on an
\* error of the socket or on ctx.Done(); nothing ends the wait at cfg.Timeout.
Tick ==
    /\ cpc = "stalled"
    /\ PendingRead
    /\ log.waited < MaxWait
    /\ log' = [log EXCEPT !.waited = @ + 1]
    /\ UNCHANGED <<env, outFile, stateFile, c2s, s2c, spc, srv, cpc, cl, session>>

StallInit ==
    /\ Init
    /\ source = <<3, 10>>
    /\ filePath = <<102,46,116,120,116>>
    /\ serverCfg = [ChunkSize |-> 1, VerifyHash |-> TRUE, Retries |-> 1]
    /\ clientCfg.ChunkSize = 1
    /\ ~clientCfg.Compression

StallNext == Next \/ SenderStall \/ SrvAcceptTimeout \/ Tick

StallSpec ==
    /\ StallInit
    /\ [][StallNext]_vars
    /\ WF_vars(Sender)
    /\ WF_vars(Receiver)
    /\ WF_vars(SrvAcceptTimeout)
    /\ WF_vars(Tick)

(***************************************************************************)
(* Two connections handled concurrently.  Run starts one goroutine per     *)
(* accepted connection; the second connection's client is well behaved,    *)
(* has the receiver's chunk size and asks for no verification, and its     *)
(* handleFileTransfer is followed through its accesses to the files of the *)
(* output directory.                                                       *)
(***************************************************************************)
\* The second connection announced the basename of the first.
SameName == other.filename = Base(filePath)

\* The second client's file: bytes that are in no source file of the first.
OtherSource(size) == [i \in 1..size |-> 7]

\* filepath.Join(cfg.OutputDir, baseFilename) and the state file next to it,
\* as the second connection finds them.
OtherOutFile == IF SameName THEN outFile ELSE other.outFile

OtherStateFile == IF SameName THEN stateFile ELSE other.stateFile

\* handleFileTransfer of the second connection, from the metadata to the
\* resume decision: tryResumeTransfer reads <basename>.justdatacopier.state.
OtherAnnounce ==
    /\ other.pc = "idle"
    /\ \E name \in FilePaths, size \in 1..MaxChunkSize :
          LET file == IF name = Base(filePath) THEN stateFile ELSE other.stateFile
              t == tryResumeFrom(file, name, serverCfg.ChunkSize, size,
                                 NumChunksOf(size, serverCfg.ChunkSize))
          IN  other' = [other EXCEPT !.pc = "open", !.filename = name,
                                     !.fileSize = size,
                                     !.ChunksReceived = t.state.ChunksReceived,
                                     !.resuming = t.resuming]
    /\ UNCHANGED <<wire, netStats, startup, netProfile, source, filePath, serverCfg, clientCfg, outFile, stateFile, c2s,
                   s2c, spc, srv, cpc, cl, session, log>>

\* createOrOpenOutputFile and PreallocateFile of the second connection.
OtherOpen ==
    /\ other.pc = "open"
    /\ LET opened == createOrOpenOutputFile(OtherOutFile, other.resuming)
           file == IF other.resuming THEN opened
                   ELSE <<PreallocateFile(opened[1], other.fileSize)>>
       IN  IF SameName
           THEN /\ outFile' = file
                /\ other' = [other EXCEPT !.pc = "chunks"]
           ELSE /\ other' = [other EXCEPT !.pc = "chunks", !.outFile = file]
                /\ UNCHANGED outFile
    /\ UNCHANGED <<wire, netStats, startup, netProfile, source, filePath, serverCfg, clientCfg, stateFile, c2s, s2c, spc,
                   srv, cpc, cl, session, log>>

\* One pass of processChunks of the second connection: a received chunk is
\* skipped; otherwise the chunk is written at its offset through the open
\* file (a file removed meanwhile is written to no more), marked, and the
\* state is saved.
OtherChunk ==
    /\ other.pc = "chunks"
    /\ other.chunkIdx < Len(other.ChunksReceived)
    /\ LET offset == other.chunkIdx * serverCfg.ChunkSize
           data == ReadAt(OtherSource(other.fileSize), serverCfg.ChunkSize, offset)
           file == IF OtherOutFile = <<>> THEN <<>>
                   ELSE <<WriteAt(OtherOutFile[1], data, offset)>>
           marked == [other.ChunksReceived EXCEPT ![other.chunkIdx + 1] = TRUE]
           state == SaveTransferState(
                        [FreshState(other.filename, other.fileSize, serverCfg.ChunkSize,
                                    Len(other.ChunksReceived))
                            EXCEPT !.ChunksReceived = marked])
       IN  IF alreadyReceived(other.ChunksReceived, other.chunkIdx)
           THEN /\ other' = [other EXCEPT !.chunkIdx = @ + 1]
                /\ UNCHANGED <<outFile, stateFile>>
           ELSE IF SameName
           THEN /\ outFile' = file
                /\ stateFile' = state
                /\ other' = [other EXCEPT !.chunkIdx = @ + 1, !.ChunksReceived = marked]
           ELSE /\ other' = [other EXCEPT !.chunkIdx = @ + 1, !.ChunksReceived = marked,
                                          !.outFile = file, !.stateFile = state]
                /\ UNCHANGED <<outFile, stateFile>>
    /\ UNCHANGED <<wire, netStats, startup, netProfile, source, filePath, serverCfg, clientCfg, c2s, s2c, spc, srv, cpc, cl,
                   session, log>>

\* The end of handleFileTransfer of the second connection: the state file
\* is removed and Complete is sent.
OtherComplete ==
    /\ other.pc = "chunks"
    /\ other.chunkIdx >= Len(other.ChunksReceived)
    /\ IF SameName
       THEN /\ stateFile' = RemoveTransferState(stateFile)
            /\ other' = [other EXCEPT !.pc = "done"]
       ELSE /\ other' = [other EXCEPT !.pc = "done",
                                      !.stateFile = RemoveTransferState(other.stateFile)]
            /\ UNCHANGED stateFile
    /\ UNCHANGED <<wire, netStats, startup, netProfile, source, filePath, serverCfg, clientCfg, outFile, c2s, s2c, spc, srv,
                   cpc, cl, session, log>>

OtherConnection == OtherAnnounce \/ OtherOpen \/ OtherChunk \/ OtherComplete

ConcurrentInit ==
    /\ Init
    /\ source = <<3, 10>>
    /\ filePath = <<102,46,116,120,116>>
    /\ serverCfg = [ChunkSize |-> 1, VerifyHash |-> TRUE, Retries |-> 1]
    /\ clientCfg.ChunkSize = 1
    /\ ~clientCfg.Compression

ConcurrentNext == Next \/ OtherConnection

ConcurrentSpec == ConcurrentInit /\ [][ConcurrentNext]_vars

(***************************************************************************)
(* Writes that fail part-way.  Both sides write through a bufio.Writer;    *)
(* a failed Write or Flush may have put a part of the buffered bytes on    *)
(* the wire.  The sender is in its command loop and the receiver in        *)
(* processChunks; what the other side answers is left open.                *)
(***************************************************************************)
\* const maxRetries = 5 in client.sendChunk
maxRetries == 5

\* Faulty variant of stickyError: the writer accepts data again after a
\* failed write.
errorForgotten(err, failed) == FALSE

\* bufio.Writer keeps the first error of a write: no more data is accepted
\* and all later writes and Flush return that error.
stickyError(err, failed) == err \/ failed

\* The bytes of the Data frame that sendDataInPieces writes.
payloadOf(data) ==
    IF clientCfg.Compression /\ ShouldCompress(filePath) THEN CompressData(data) ELSE data

\* handleChunkRequest: a Request has arrived for the next offset of the
\* receiver's grid; sendChunk reads the chunk and sets its context.
SendChunkBegin ==
    /\ cpc = "loop"
    /\ LET offset == Len(log.data) * serverCfg.ChunkSize
           data == ReadAt(source, cl.ChunkSize, offset)
       IN  /\ offset < Len(source)
           /\ cl' = [cl EXCEPT !.data = data, !.retry = 0, !.ctxDone = FALSE]
           /\ log' = [log EXCEPT !.data = @ \o
                         <<[offset |-> offset, size |-> Len(data),
                            flag |-> FrameFlag(sendChunkData(data), Len(data))]>>]
    /\ cpc' = "send"
    /\ UNCHANGED <<env, outFile, stateFile, c2s, s2c, spc, srv, session>>

\* One pass of the retry loop of sendChunk: sendChunkData writes the frame,
\* all of it, or the first k bytes of it before a write fails, or the first
\* k bytes before sendDataInPieces finds the context done.  A pass that
\* finds the context done, or the last pass, returns from Run.
SendAttempt ==
    /\ cpc = "send"
    /\ LET frame == sendChunkData(cl.data)
           header == Len(frame) - Len(payloadOf(cl.data))
           begun(k) == IF k > 0 THEN [log EXCEPT !.begunC = @ \o <<frame>>] ELSE log
       IN  \/ /\ ~cl.writerErr
              /\ c2s' = c2s \o frame
              /\ log' = begun(Len(frame))
              /\ cpc' = "loop"
              /\ cl' = cl
           \/ \E k \in 0..(Len(frame) - 1) :
                 /\ cl.writerErr => k = 0
                 /\ c2s' = c2s \o Take(frame, k)
                 /\ log' = begun(k)
                 /\ cl' = [cl EXCEPT !.writerErr = stickyError(cl.writerErr, TRUE),
                                     !.retry = @ + 1,
                                     !.result = IF cl.retry + 1 < maxRetries
                                                THEN @ ELSE "error"]
                 /\ cpc' = IF cl.retry + 1 < maxRetries THEN "send" ELSE "exit"
           \/ \E k \in {0} \cup (header..(Len(frame) - 1)) :
                 /\ ~cl.writerErr
                 /\ c2s' = c2s \o Take(frame, k)
                 /\ log' = begun(k)
                 /\ cl' = [cl EXCEPT !.ctxDone = TRUE, !.result = "error"]
                 /\ cpc' = "exit"
    /\ UNCHANGED <<env, outFile, stateFile, s2c, spc, srv, session>>

\* The frame a write of the receiver puts on the wire, all of it or, when
\* the write fails, its first k bytes.
SrvWrites(frame, k) ==
    /\ srv.writerErr => k = 0
    /\ s2c' = s2c \o Take(frame, k)
    /\ log' = IF k > 0 THEN [log EXCEPT !.begunS = @ \o <<frame>>] ELSE log

\* One pass of receiveChunkWithRetries: receiveChunk writes the Request and
\* flushes; after a flushed Request the chunk arrives or the read fails.
SrvRequestAttempt ==
    /\ spc = "chunks"
    /\ srv.chunkIdx < srv.NumChunks
    /\ attemptsLeft(srv.retry, serverCfg.Retries)
    /\ LET frame == SendCommand(CmdRequest)
                        \o SendInt64(srv.chunkIdx * serverCfg.ChunkSize)
       IN  \/ /\ ~srv.writerErr
              /\ SrvWrites(frame, Len(frame))
              /\ \/ srv' = [srv EXCEPT !.chunkIdx = @ + 1, !.retry = 0,
                                        !.ChunksReceived[srv.chunkIdx + 1] = TRUE]
                 \/ srv' = [srv EXCEPT !.retry = @ + 1]
           \/ \E k \in 0..(Len(frame) - 1) :
                 /\ SrvWrites(frame, k)
                 /\ srv' = [srv EXCEPT !.writerErr = stickyError(srv.writerErr, TRUE),
                                       !.retry = @ + 1]
    /\ UNCHANGED <<env, outFile, stateFile, c2s, spc, cpc, cl, session>>

\* The end of handleFileTransfer: the Error frame after the attempts ran
\* out, or Complete after the last chunk.
SrvLastFrame ==
    /\ spc = "chunks"
    /\ srv.chunkIdx >= srv.NumChunks \/ ~attemptsLeft(srv.retry, serverCfg.Retries)
    /\ LET frame == IF srv.chunkIdx >= srv.NumChunks THEN SendCommand(CmdComplete)
                    ELSE SendError(MsgTransferFailed)
       IN  \E k \in 0..Len(frame) :
              /\ SrvWrites(frame, k)
              /\ srv' = [srv EXCEPT
                            !.writerErr = stickyError(srv.writerErr, k < Len(frame)),
                            !.result = IF srv.chunkIdx >= srv.NumChunks
                                       THEN "complete" ELSE "error"]
    /\ spc' = "closed"
    /\ UNCHANGED <<env, outFile, stateFile, c2s, cpc, cl, session>>

\* Both sides after the resume negotiation of a fresh transfer.
FramingInit ==
    /\ source \in FileContents
    /\ filePath \in FilePaths
    /\ serverCfg \in [ChunkSize : ChunkSizes, VerifyHash : {FALSE}, Retries : 1..MaxRetries]
    /\ clientCfg \in [ChunkSize : ChunkSizes, VerifyHash : {FALSE}, Compression : BOOLEAN]
    /\ outFile = <<PreallocateFile(<<>>, Len(source))>>
    /\ stateFile = <<>>
    /\ c2s = <<>>
    /\ s2c = <<>>
    /\ spc = "chunks"
    /\ srv = [srvInit EXCEPT
                 !.filename = Base(filePath),
                 !.fileSize = Len(source),
                 !.numChunks = NumChunksOf(Len(source), serverCfg.ChunkSize),
                 !.NumChunks = NumChunksOf(Len(source), serverCfg.ChunkSize),
                 !.ChunksReceived =
                     [i \in 1..NumChunksOf(Len(source), serverCfg.ChunkSize) |-> FALSE]]
    /\ cpc = "loop"
    /\ cl = [clInit EXCEPT !.ChunkSize = clientCfg.ChunkSize]
    /\ session = 1
    /\ log = logInit
    /\ other = otherInit
    /\ netStats = netStatsInit
    /\ startup = startupInit
    /\ netProfile = profileInit
    /\ wire = wireInit

FramingNext == SendChunkBegin \/ SendAttempt \/ SrvRequestAttempt \/ SrvLastFrame

FramingSpec == FramingInit /\ [][FramingNext]_vars

(***************************************************************************)
(* Any peer.  The receiver accepts a connection from any program; here the *)
(* peer on the connection answers each Request with a compressed Data      *)
(* frame whose announced size need not be the length of what the payload   *)
(* decompresses to.                                                        *)
(***************************************************************************)
\* The plain chunks a peer compresses: n bytes of one value.
PeerPlain(n) == [i \in 1..n |-> 7]

\* A Data frame in the layout receiveChunk reads: command, announced size,
\* compression flag 1, compressed size, compressed bytes.
PeerFrame(size, plain) ==
    SendCommand(CmdData) \o SendInt64(size) \o <<1>>
        \o SendInt64(Len(CompressData(plain))) \o CompressData(plain)

\* The peer's answer to a Request.
PeerAnswer ==
    /\ cpc = "peer"
    /\ spc = "data"
    /\ c2s = <<>>
    /\ \E size \in (0 - 1)..(MaxChunkSize + 1), n \in 0..(MaxChunkSize + 1) :
          /\ c2s' = PeerFrame(size, PeerPlain(n))
          /\ log' = [log EXCEPT !.answer = <<[size |-> size, plain |-> n]>>]
    /\ UNCHANGED <<env, outFile, stateFile, s2c, spc, srv, cpc, cl, session>>

\* The receiver in processChunks of a fresh transfer, connected to a peer.
PeerInit ==
    /\ source \in FileContents
    /\ filePath \in FilePaths
    /\ serverCfg \in [ChunkSize : ChunkSizes, VerifyHash : {FALSE}, Retries : 1..MaxRetries]
    /\ clientCfg \in [ChunkSize : ChunkSizes, VerifyHash : {FALSE}, Compression : {TRUE}]
    /\ outFile = <<PreallocateFile(<<>>, Len(source))>>
    /\ stateFile = <<>>
    /\ c2s = <<>>
    /\ s2c = <<>>
    /\ spc = "chunks"
    /\ srv = [srvInit EXCEPT
                 !.filename = Base(filePath),
                 !.fileSize = Len(source),
                 !.numChunks = NumChunksOf(Len(source), serverCfg.ChunkSize),
                 !.NumChunks = NumChunksOf(Len(source), serverCfg.ChunkSize),
                 !.ChunksReceived =
                     [i \in 1..NumChunksOf(Len(source), serverCfg.ChunkSize) |-> FALSE]]
    /\ cpc = "peer"
    /\ cl = clInit
    /\ session = 1
    /\ log = logInit
    /\ other = otherInit
    /\ netStats = netStatsInit
    /\ startup = startupInit
    /\ netProfile = profileInit
    /\ wire = wireInit

PeerNext ==
    \/ PeerAnswer
    \/ SrvSendRequest
    \/ SrvReceiveChunk
    \/ SrvMarkReceived
    \/ SrvRetriesExhausted
    \/ SrvSkipVerify
    \/ SrvComplete

PeerSpec == PeerInit /\ [][PeerNext]_vars

(***************************************************************************)
(* The delay before each chunk, on either side, for every delay setting    *)
(* that Config.Validate accepts.                                           *)
(***************************************************************************)
ChunkDelays == {0, DefaultChunkDelay, MaxDuration}

\* The defaults, and adaptive mode with bounds 0 < MinDelay <= MaxDelay.
DelaySettings ==
    { DefaultDelays } \cup
    { [AdaptiveDelay |-> TRUE, MinDelay |-> b[1], MaxDelay |-> b[2],
       ChunkDelay |-> DefaultChunkDelay] :
          b \in {<<DefaultMinDelay, DefaultMaxDelay>>, <<20, 20>>} }

\* netStats.UpdateStats(actualSize) for a chunk of chunkSize bytes that
\* came duration ms after the previous one.
Observed(slept, chunkSize, duration) ==
    [netStats EXCEPT !.slept = slept, !.ns = UpdateStats(@, chunkSize, duration)]

\* handleChunkRequest: the sender sleeps GetDelay(cfg.ChunkDelay) when that
\* is positive, sends the chunk and updates the statistics.
ClientChunkDelay ==
    /\ netStats.side = "sender"
    /\ \E chunkDelay \in GetDelay(netStats.ns, netStats.cfg.ChunkDelay),
          chunkSize \in 1..MaxChunkSize, duration \in 0..MaxElapsed :
          netStats' = Observed(IF chunkDelay > 0 THEN <<chunkDelay>> ELSE <<>>,
                               chunkSize, duration)
    /\ UNCHANGED <<source, filePath, serverCfg, clientCfg, other, outFile, stateFile,
                   c2s, s2c, spc, srv, cpc, cl, session, log, startup, netProfile, wire>>

\* processChunks: the receiver sleeps GetDelay(cfg.ChunkDelay) in adaptive
\* mode and cfg.ChunkDelay, when positive, otherwise; it receives the chunk
\* and updates the statistics.
SrvChunkDelay ==
    /\ netStats.side = "receiver"
    /\ \E delay \in GetDelay(netStats.ns, netStats.cfg.ChunkDelay),
          chunkSize \in 1..MaxChunkSize, duration \in 0..MaxElapsed :
          netStats' = Observed(IF netStats.cfg.AdaptiveDelay THEN <<delay>>
                               ELSE IF netStats.cfg.ChunkDelay > 0
                               THEN <<netStats.cfg.ChunkDelay>> ELSE <<>>,
                               chunkSize, duration)
    /\ UNCHANGED <<source, filePath, serverCfg, clientCfg, other, outFile, stateFile,
                   c2s, s2c, spc, srv, cpc, cl, session, log, startup, netProfile, wire>>

DelayInit ==
    /\ source = <<3>>
    /\ filePath = <<102,46,116,120,116>>
    /\ serverCfg = [ChunkSize |-> MaxChunkSize, VerifyHash |-> FALSE, Retries |-> 1]
    /\ clientCfg = [ChunkSize |-> MaxChunkSize, VerifyHash |-> FALSE, Compression |-> FALSE]
    /\ outFile = <<>>
    /\ stateFile = <<>>
    /\ c2s = <<>>
    /\ s2c = <<>>
    /\ spc = "chunks"
    /\ srv = srvInit
    /\ cpc = "loop"
    /\ cl = clInit
    /\ session = 1
    /\ log = logInit
    /\ other = otherInit
    /\ startup = startupInit
    /\ netProfile = profileInit
    /\ wire = wireInit
    /\ \E side \in {"sender", "receiver"}, cfg \in DelaySettings,
          chunkDelay \in ChunkDelays :
          LET c == [cfg EXCEPT !.ChunkDelay = chunkDelay]
          IN  netStats = [side |-> side, cfg |-> c, ns |-> NewNetworkStats(c),
                          slept |-> <<>>]

DelayNext == ClientChunkDelay \/ SrvChunkDelay

DelaySpec == DelayInit /\ [][DelayNext]_vars

(***************************************************************************)
(* Startup: ParseFlags builds the Config from the command line and hands   *)
(* it to Validate.                                                         *)
(***************************************************************************)

\* Command lines: every numeric flag below, at and above its limit.
Configs ==
    [IsServer : BOOLEAN, FilePath : {"", "f.txt"}, ChunkSize : {0 - 1, 0, 1},
     BufferSize : {0, 1}, Workers : {0, 1}, Retries : {0 - 1, 0, 1},
     Timeout : {0, 1}, AdaptiveDelay : BOOLEAN,
     MinDelay : {0, DefaultMinDelay, MaxDelaySetting},
     MaxDelay : {0, DefaultMinDelay, MaxDelaySetting}]

\* ParseFlags: config.Validate() on the configuration built from the flags.
ParseFlags ==
    /\ ~startup.checked
    /\ startup' = [startup EXCEPT !.checked = TRUE, !.err = Validate(startup.config)]
    /\ UNCHANGED <<source, filePath, serverCfg, clientCfg, other, outFile, stateFile,
                   c2s, s2c, spc, srv, cpc, cl, session, log, netStats, netProfile, wire>>

ValidateInit ==
    /\ source = <<3>>
    /\ filePath = <<102,46,116,120,116>>
    /\ serverCfg = [ChunkSize |-> MaxChunkSize, VerifyHash |-> FALSE, Retries |-> 1]
    /\ clientCfg = [ChunkSize |-> MaxChunkSize, VerifyHash |-> FALSE, Compression |-> FALSE]
    /\ outFile = <<>>
    /\ stateFile = <<>>
    /\ c2s = <<>>
    /\ s2c = <<>>
    /\ spc = "accept"
    /\ srv = srvInit
    /\ cpc = "start"
    /\ cl = clInit
    /\ session = 1
    /\ log = logInit
    /\ other = otherInit
    /\ netStats = netStatsInit
    /\ netProfile = profileInit
    /\ wire = wireInit
    /\ \E c \in Configs : startup = [config |-> c, checked |-> FALSE, err |-> <<>>]

ValidateNext == ParseFlags

ValidateSpec == ValidateInit /\ [][ValidateNext]_vars

(***************************************************************************)
(* Profiling on its own: the pings have been sent and ProfileNetwork       *)
(* derives the profile from their average round-trip time.                 *)
(***************************************************************************)
\* ProfileCompletion: the RTT is the average of the successful pings, the
\* default when there was none.
ProfileCompletion ==
    /\ ~netProfile.done
    /\ LET RTT == IF netProfile.rtt = <<>> THEN netProfile.RTT ELSE netProfile.rtt[1]
       IN  netProfile' = [netProfile EXCEPT !.done = TRUE,
                                      !.RTT = RTT,
                                      !.Bandwidth = EstimateBandwidth(RTT),
                                      !.OptimalChunkSize = OptimalChunkSizeFor(RTT)]
    /\ UNCHANGED <<source, filePath, serverCfg, clientCfg, other, outFile, stateFile,
                   c2s, s2c, spc, srv, cpc, cl, session, log, netStats, startup, wire>>

ProfileInit ==
    /\ source = <<3>>
    /\ filePath = <<102,46,116,120,116>>
    /\ serverCfg = [ChunkSize |-> MaxChunkSize, VerifyHash |-> FALSE, Retries |-> 1]
    /\ clientCfg = [ChunkSize |-> MaxChunkSize, VerifyHash |-> FALSE, Compression |-> FALSE]
    /\ outFile = <<>>
    /\ stateFile = <<>>
    /\ c2s = <<>>
    /\ s2c = <<>>
    /\ spc = "accept"
    /\ srv = srvInit
    /\ cpc = "start"
    /\ cl = clInit
    /\ session = 1
    /\ log = logInit
    /\ other = otherInit
    /\ netStats = netStatsInit
    /\ startup = startupInit
    /\ \E rtt \in {<<>>} \cup { <<t>> : t \in 0..MaxRTT } :
          netProfile = [profileInit EXCEPT !.rtt = rtt, !.done = FALSE]
    /\ wire = wireInit

ProfileNext == ProfileCompletion

ProfileSpec == ProfileInit /\ [][ProfileNext]_vars

(***************************************************************************)
(* Any receiver.  The sender connects to any program; here the peer that   *)
(* accepted the connection answers the Init frame with a Resume frame of   *)
(* its choosing, whole or cut short by the end of the connection, and      *)
(* then sends Complete.                                                    *)
(***************************************************************************)
\* What a peer may put into a Resume frame: the flag, the chunk count
\* (one below zero to one above the largest count of the sender) and
\* whether the count is written as a number.
ResumeOffers ==
    [CanResume : BOOLEAN, TotalChunks : (0 - 1)..(MaxFileSize + 1), numeric : BOOLEAN]

\* The Resume frame of an offer, in the layout ReadResumeInfo reads; the
\* first chunk is listed as completed.
OfferFrame(offer) ==
    IF ~offer.CanResume THEN SendCommand(CmdResume) \o <<0>>
    ELSE SendCommand(CmdResume) \o <<1>> \o SendInt64(0)
         \o (IF offer.numeric THEN SendInt64(offer.TotalChunks) ELSE SendString(<<120>>))
         \o SendString(FormatInt(0))

\* The peer reads the Init frame and writes a Resume frame; it may close
\* the connection after any number of the frame's bytes.
PeerOffer ==
    /\ spc = "peer"
    /\ cpc = "negotiate"
    /\ log.answer = <<>>
    /\ \E offer \in ResumeOffers, whole \in BOOLEAN :
          \E n \in IF whole THEN {Len(OfferFrame(offer))}
                    ELSE 1..(Len(OfferFrame(offer)) - 1) :
             /\ s2c' = Take(OfferFrame(offer), n)
             /\ spc' = IF whole THEN "peer" ELSE "closed"
             /\ log' = [log EXCEPT !.answer = <<[offer EXCEPT !.numeric = @ /\ whole]>>,
                                   !.sent = n]
    /\ c2s' = <<>>
    /\ UNCHANGED <<env, outFile, stateFile, srv, cpc, cl, session>>

\* The algorithm tokens a peer may announce: the three known ones, an
\* unknown one, the empty one, upper case, and one with a space in front.
HashTokens ==
    {HashMD5, HashSHA256, HashBLAKE2b, <<120>>, <<>>, <<77,68,53>>, <<32>> \o HashMD5}

\* The peer sends a HashAlgo frame after the negotiation.
PeerHashAlgo ==
    /\ spc = "peer"
    /\ cpc = "loop"
    /\ s2c = <<>>
    /\ log.algo = <<>>
    /\ \E token \in HashTokens :
          /\ s2c' = SendHashAlgorithm(token)
          /\ log' = [log EXCEPT !.algo = <<token>>,
                                !.sent = @ + Len(SendHashAlgorithm(token))]
    /\ c2s' = <<>>
    /\ UNCHANGED <<env, outFile, stateFile, spc, srv, cpc, cl, session>>

\* The peer ends the transfer after the negotiation.
PeerComplete ==
    /\ spc = "peer"
    /\ cpc \in {"loop", "verdict"}
    /\ s2c' = s2c \o SendCommand(CmdComplete)
    /\ spc' = "closed"
    /\ log' = [log EXCEPT !.sent = @ + 1]
    /\ UNCHANGED <<env, outFile, stateFile, c2s, srv, cpc, cl, session>>

\* The sender at the start of Run, connected to a peer.
OfferInit ==
    /\ source \in FileContents
    /\ filePath = <<102,46,116,120,116>>
    /\ serverCfg = [ChunkSize |-> MaxChunkSize, VerifyHash |-> FALSE, Retries |-> 1]
    /\ clientCfg \in [ChunkSize : ChunkSizes, VerifyHash : {FALSE}, Compression : {FALSE}]
    /\ outFile = <<>>
    /\ stateFile = <<>>
    /\ c2s = <<>>
    /\ s2c = <<>>
    /\ spc = "peer"
    /\ srv = srvInit
    /\ cpc = "start"
    /\ cl = clInit
    /\ session = 1
    /\ log = logInit
    /\ other = otherInit
    /\ netStats = netStatsInit
    /\ startup = startupInit
    /\ netProfile = profileInit
    /\ wire = wireInit

OfferNext ==
    \/ ClientRun
    \/ PeerOffer
    \/ ClientNegotiate
    \/ PeerHashAlgo
    \/ PeerComplete
    \/ ClientCommand
    \/ ClientVerdict

OfferSpec == OfferInit /\ [][OfferNext]_vars

(***************************************************************************)
(* Properties.                                                             *)
(***************************************************************************)
\* The receiver's chunk grid: chunk i covers bytes [GridStart(i), GridEnd(i)).
GridStart(i) == i * serverCfg.ChunkSize

GridEnd(i) == Min((i + 1) * serverCfg.ChunkSize, Len(source))

GridChunks == 0..(NumChunksOf(Len(source), serverCfg.ChunkSize) - 1)

\* The output file exists and holds the source's bytes of chunk i in place.
HoldsChunk(i) ==
    /\ outFile # <<>>
    /\ Len(outFile[1]) >= GridEnd(i)
    /\ SubSeq(outFile[1], GridStart(i) + 1, GridEnd(i))
           = SubSeq(source, GridStart(i) + 1, GridEnd(i))

CompleteSent == \E k \in 1..Len(log.frames) : log.frames[k] = "Complete"

\* Both programs were started with the same chunk size.
SameChunkSize == clientCfg.ChunkSize = serverCfg.ChunkSize

\* C1 (round-trip identity): a transfer to a fresh receiver (first connection:
\* no state file, no output file), both sides started with chunk size C, that
\* the receiver answers with Complete leaves an output file byte-identical to
\* the source, every chunk of the grid holding the source's bytes.
RoundTripIdentity ==
    (session = 1 /\ SameChunkSize /\ CompleteSent)
        => /\ outFile = <<source>>
           /\ \A i \in GridChunks : HoldsChunk(i)

\* Requests go up, and a later chunk is requested only after the earlier one
\* was written.
RequestsAscending ==
    \A k \in 1..(Len(log.requests) - 1) :
        /\ log.requests[k] <= log.requests[k + 1]
        /\ log.requests[k] < log.requests[k + 1]
               => (log.requests[k] \div serverCfg.ChunkSize) \in log.written

AtMostOneOutstanding == Len(log.requests) - log.resolved \in {0, 1}

\* The chunk cursor moves one chunk forward, past a chunk that is received;
\* a Request is sent only when every earlier Request has been resolved.
CursorForward ==
    (session' = session) =>
        /\ (srv'.chunkIdx # srv.chunkIdx) =>
               /\ srv'.chunkIdx = srv.chunkIdx + 1
               /\ \/ srv.ChunksReceived[srv.chunkIdx + 1]
                  \/ srv.chunkIdx \in log.written
        /\ (Len(log'.requests) > Len(log.requests)) =>
               log.resolved = Len(log.requests)

\* C2 (ordering guarantee): within one transfer the receiver requests chunks
\* in ascending index order, the cursor only moves forward and only past a
\* chunk that succeeded, and at most one Request is outstanding at any moment.
OrderingGuarantee ==
    /\ [](RequestsAscending /\ AtMostOneOutstanding)
    /\ [][CursorForward]_vars

\* C2 witness: a transfer of three chunks requested one after the other, each
\* answered, has been completed.
OrderingWitness ==
    /\ Len(log.requests) >= 3
    /\ log.requests[1] < log.requests[2]
    /\ log.requests[2] < log.requests[3]
    /\ log.resolved = Len(log.requests)
    /\ CompleteSent

LoadedFalse == { i \in 1..Len(log.loaded) : ~log.loaded[i] }

NoRetries ==
    \A j, k \in 1..Len(log.requests) : j # k => log.requests[j] # log.requests[k]

\* C3 (skip of received chunks): in a connection that resumes from a loaded
\* state, no Request names the offset of a chunk the loaded bitmap marks
\* received and no Data frame for it is served; when the connection
\* completes, the chunks pulled are exactly the false entries of the loaded
\* bitmap, one Request each when nothing was retried.
SkipsReceivedChunks ==
    srv.resuming =>
        /\ \A i \in 1..Len(log.loaded) : log.loaded[i] =>
               /\ \A k \in 1..Len(log.requests) : log.requests[k] # GridStart(i - 1)
               /\ \A k \in 1..Len(log.data) : log.data[k].offset # GridStart(i - 1)
        /\ CompleteSent =>
               /\ log.written = { i - 1 : i \in LoadedFalse }
               /\ NoRetries => Len(log.requests) = Cardinality(LoadedFalse)

\* C3 witness: a resumed connection whose loaded bitmap had received and
\* missing chunks has pulled the missing ones and completed.
SkipsWitness ==
    /\ srv.resuming
    /\ CompleteSent
    /\ \E i \in 1..Len(log.loaded) : log.loaded[i]
    /\ LoadedFalse # {}
    /\ Len(log.data) = Cardinality(LoadedFalse)

\* The receiver ended the connection on its own account (it was not killed).
ServerEnded == spc \in {"closed", "panicked"}

\* C4 (resume idempotence): the receiver was killed during the first
\* connection, both programs are started again with the same file and chunk
\* size; when the second connection has ended, the output file equals the
\* source and no state file is left.
ResumeIdempotence ==
    (session > 1 /\ log.prev = "killed" /\ SameChunkSize /\ ServerEnded)
        => (outFile = <<source>> /\ stateFile = <<>>)

\* The receiver holds a TransferState: created or loaded, and not dropped.
StateInUse ==
    /\ spc \in {"resume", "open", "preallocate", "chunks", "data", "written",
                "hash", "cleanup"}
    /\ ~srv.stateNil

\* C5 (persisted-bitmap invariant): in every state, on every connection, a
\* chunk that the TransferState in use marks received is on disk: the output
\* file holds the source's bytes of that chunk at its offset.
PersistedBitmap ==
    (SameChunkSize /\ StateInUse) =>
        \A i \in 1..Len(srv.ChunksReceived) : srv.ChunksReceived[i] => HoldsChunk(i - 1)

\* The state file on disk records chunk i as received.
Recorded(i) ==
    /\ stateFile # <<>>
    /\ ~stateFile[1].corrupt
    /\ i + 1 <= Len(stateFile[1].ChunksReceived)
    /\ stateFile[1].ChunksReceived[i + 1]

VerifiedBeforeComplete ==
    \E j, k \in 1..Len(log.frames) :
        j < k /\ log.frames[j] = "Verified" /\ log.frames[k] = "Complete"

\* C7 (Complete ends Transferring -> Verifying -> Complete): a Complete frame
\* is sent only when every chunk of the grid is marked received and, when
\* both sides opted into verification, after the receiver found its digest of
\* the output equal to the digest the sender sent; after a mismatch no
\* Complete frame is sent on the connection.
CompleteOnlyVerified ==
    /\ CompleteSent =>
           /\ Len(srv.ChunksReceived) = NumChunksOf(Len(source), serverCfg.ChunkSize)
           /\ \A i \in 1..Len(srv.ChunksReceived) : srv.ChunksReceived[i]
           /\ (serverCfg.VerifyHash /\ clientCfg.VerifyHash) =>
                  /\ VerifiedBeforeComplete
                  /\ outFile # <<>>
                  /\ cl.hash = CalculateFileHashWithAlgorithm(
                                   outFile[1], SelectHashAlgorithm(Len(source)))
    /\ srv.result = "mismatch" => ~CompleteSent

\* C7 witness: Complete has been sent on a connection where both sides opted
\* into verification.
CompleteVerifiedWitness ==
    /\ CompleteSent
    /\ serverCfg.VerifyHash
    /\ clientCfg.VerifyHash
    /\ Len(srv.ChunksReceived) >= 2

\* C8 (integrity failure destroys output): when the receiver's digest differs
\* from the sender's, the transfer ends with the output file deleted and the
\* state file removed.
IntegrityFailureCleansUp ==
    srv.result = "mismatch" => (outFile = <<>> /\ stateFile = <<>>)

\* C9 (rejected resume): after the sender rejected an offered resume the
\* receiver goes on as a fresh transfer instead of failing: it does not end
\* before it has requested the chunks.
RejectedResumeContinues ==
    (srv.stateNil /\ ServerEnded) => Len(log.requests) > 0

\* C10 (hash handshake framing): the byte the sender takes for the command of
\* the verdict, after it sent its digest, was sent by the receiver after that
\* digest, not before.
VerdictNotStale ==
    log.verdictPos > 0 => log.verdictPos > log.digestMark

\* C11 (verdict on equal digests): when the receiver found the digests equal
\* and sent the Hash frame with HASH_VERIFIED, the message the sender reads as
\* the verdict is exactly "HASH_VERIFIED" (its success branch).
VerdictReadVerified ==
    (log.verdictPos > 0 /\ \E j \in 1..Len(log.frames) : log.frames[j] = "Verified")
        => cl.verified

\* The positions, among the frames sent on the connection, of the frames of
\* the hash handshake.
HashFrames ==
    { j \in 1..Len(log.frames) : log.frames[j] \in {"HashAlgo", "Hash", "Verified"} }

\* The receiver has left the chunk loop with every chunk received.
ChunkLoopDone == spc \in {"hash", "cleanup"} \/ srv.result \in {"complete", "mismatch"}

\* C12 (hash negotiation iff both opted in): the receiver sends the HashAlgo
\* and Hash frames exactly when its own VerifyHash setting and the preference
\* the sender announced are both true, and then after the last chunk;
\* otherwise no hash frame is sent on the way to Complete.
NegotiationIffBothOptedIn ==
    LET both == serverCfg.VerifyHash /\ clientCfg.VerifyHash
    IN  /\ ~both => HashFrames = {}
        /\ (both /\ ChunkLoopDone) =>
               \E j \in 1..(Len(log.frames) - 1) :
                   log.frames[j] = "HashAlgo" /\ log.frames[j + 1] = "Hash"
        /\ HashFrames # {} =>
               /\ srv.chunkIdx >= srv.NumChunks
               /\ \A i \in 1..Len(srv.ChunksReceived) : srv.ChunksReceived[i]

\* C12 witness: the receiver has VerifyHash on, the sender has it off, and
\* the transfer has gone from its last chunk to Complete.
NegotiationSkippedWitness ==
    /\ serverCfg.VerifyHash
    /\ ~clientCfg.VerifyHash
    /\ CompleteSent
    /\ Len(log.requests) >= 2
    /\ HashFrames = {}

\* The number of Error frames the receiver has sent on the connection.
ErrorFrames == Cardinality({ j \in 1..Len(log.frames) : log.frames[j] = "Error" })

\* C13 (one Error frame per terminal error): a transfer the receiver ended in
\* an error state (failed metadata read, invalid size, failed resume
\* negotiation, retry exhaustion, hash mismatch or failed hash handshake) has
\* sent exactly one Error frame on its connection.
ExactlyOneErrorFrame ==
    (spc = "closed" /\ srv.result \in {"error", "mismatch"}) => ErrorFrames = 1

\* The number of Requests sent on the connection for an offset.
RequestsFor(l, offset) ==
    Cardinality({ j \in 1..Len(l.requests) : l.requests[j] = offset })

\* C14 (bounded retry, same offset): a failed attempt leaves the chunk cursor
\* where it was, the Request of a retry carries the offset of the Request
\* before it, and no offset is requested more than cfg.Retries times on a
\* connection.
BoundedRetrySameOffset ==
    [][session' = session =>
          /\ srv'.retry > srv.retry => srv'.chunkIdx = srv.chunkIdx
          /\ (Len(log'.requests) > Len(log.requests) /\ srv.retry > 0) =>
                 /\ Len(log.requests) > 0
                 /\ log'.requests[Len(log'.requests)] = log.requests[Len(log.requests)]
                 /\ srv'.chunkIdx = srv.chunkIdx
          /\ \A j \in 1..Len(log'.requests) :
                 RequestsFor(log', log'.requests[j]) <= serverCfg.Retries]_vars

\* C14 witness: the last attempt allowed for a chunk is outstanding after an
\* attempt for the same offset failed while the sender was still connected.
RetryWitness ==
    /\ spc = "data"
    /\ ~CliClosed
    /\ srv.retry = 1
    /\ serverCfg.Retries = 2
    /\ Len(log.requests) >= 2
    /\ log.requests[Len(log.requests)] = log.requests[Len(log.requests) - 1]

\* The transfer ended because every attempt for the chunk at the cursor failed.
Exhausted == spc = "closed" /\ srv.retry >= serverCfg.Retries

\* The bitmap that marks the chunks adopted as received at the start of the
\* connection and the chunks written on it, and no other.
WrittenSoFar ==
    [i \in 1..Len(srv.ChunksReceived) |->
        (i <= Len(log.loaded) /\ log.loaded[i]) \/ (i - 1) \in log.written]

PendingReadBounded ==
    (cpc = "stalled" /\ PendingRead) => log.waited <= Timeout

\* The command byte of a frame of the receiver.
FrameCommand(frame) ==
    CASE frame = "Pong" -> CmdPong
      [] frame = "Resume" -> CmdResume
      [] frame = "Request" -> CmdRequest
      [] frame = "HashAlgo" -> CmdHashAlgo
      [] frame \in {"Hash", "Verified"} -> CmdHash
      [] frame = "Error" -> CmdError
      [] frame = "Complete" -> CmdComplete

\* A frame the receiver sends for the sender's command loop.
ForCommandLoop(frame) == frame \notin {"Pong", "Resume"}

\* The command bytes the receiver sent after the resume negotiation, in order.
CommandsSent ==
    LET frames == SelectSeq(log.frames, ForCommandLoop)
    IN  [j \in 1..Len(frames) |-> FrameCommand(frames[j])]

\* C17 (no command lost after resume negotiation): the bytes the sender takes
\* for commands after negotiateResume, in its command loop and in the
\* handlers the loop calls, are the command bytes the receiver sent after the
\* Resume frame, each once and in the order sent.
CommandsDispatchedInOrder ==
    /\ Len(log.commands) <= Len(CommandsSent)
    /\ \A j \in 1..Len(log.commands) : log.commands[j] = CommandsSent[j]

\* The first connection's transfer has created the output file and is still
\* running.
OutputInUse == spc \in {"preallocate", "chunks", "data", "written", "hash", "cleanup"}

\* The first connection's transfer is running and has saved its state.
StateSaved == OutputInUse /\ \E i \in log.written : Recorded(i)

\* The second connection's transfer has created the output file of the same
\* name and is still running.
OtherOutputInUse == other.pc = "chunks" /\ SameName

\* C18 (no shared mutable state across transfers): a step of one connection
\* neither overwrites nor removes the output file or the state file that the
\* other connection's running transfer has written, and does not adopt the
\* state the other has saved.
TransfersIsolated ==
    [][/\ (other' # other /\ OutputInUse) => outFile' = outFile
       /\ (other' # other /\ StateSaved) =>
              /\ stateFile' = stateFile
              /\ (other.pc = "idle" /\ SameName') => ~other'.resuming
       /\ (other' = other /\ OtherOutputInUse) =>
              /\ outFile' = outFile
              /\ stateFile' = stateFile]_vars

\* The bytes of a sequence of frames.
RECURSIVE Flatten(_)
Flatten(frames) ==
    IF frames = <<>> THEN <<>> ELSE frames[1] \o Flatten(Tail(frames))

\* A stream that holds the frames begun, in order, all of them whole except
\* possibly the one begun last.
CompleteFrames(stream, begun) ==
    /\ Len(stream) <= Len(Flatten(begun))
    /\ stream = Take(Flatten(begun), Len(stream))
    /\ begun # <<>> => Len(stream) >= Len(Flatten(SubSeq(begun, 1, Len(begun) - 1)))

\* C19 (streams of complete frames): on each side every frame begun is
\* written whole before the next one is begun, also after a write of a Data
\* frame failed part-way and sendChunk tries again: only the frame begun last
\* can be partly written.
StreamsOfCompleteFrames ==
    /\ CompleteFrames(c2s, log.begunC)
    /\ CompleteFrames(s2c, log.begunS)

\* C19 witness: a write of the second Data frame failed part-way and
\* sendChunk has used up its attempts.
PartialWriteWitness ==
    /\ cpc = "exit"
    /\ cl.retry = maxRetries
    /\ Len(log.begunC) = 2
    /\ Len(c2s) > Len(log.begunC[1])
    /\ Len(c2s) < Len(Flatten(log.begunC))

\* The step in which receiveChunk has read a compressed Data frame whose
\* payload decompresses to a length other than the announced size.
WrongLengthRead ==
    /\ spc = "data"
    /\ spc' # "data"
    /\ c2s # <<>>
    /\ log.answer # <<>>
    /\ log.answer[1].size <= serverCfg.ChunkSize
    /\ log.answer[1].plain # log.answer[1].size

\* C20 (decompressed length checked): a compressed chunk whose decompressed
\* length is shorter or longer than the size announced in the Data frame is
\* rejected: nothing is written, the chunk is not marked received, and the
\* attempt counts as failed so that the chunk is requested again.
DecompressedLengthChecked ==
    [][WrongLengthRead =>
          /\ outFile' = outFile
          /\ spc' = "chunks"
          /\ srv'.ChunksReceived = srv.ChunksReceived
          /\ srv'.retry = srv.retry + 1]_vars

\* C21 (adaptive rate bounds): with adaptive mode on and bounds
\* 0 < min_delay <= max_delay, after any observations the multiplier is in
\* [0.1, 10] and every delay GetDelay gives is in [min_delay, max_delay].
AdaptiveRateBounds ==
    netStats.cfg.AdaptiveDelay =>
        /\ 10 * netStats.ns.DelayMultiplier >= MultScale
        /\ netStats.ns.DelayMultiplier <= 10 * MultScale
        /\ \A delay \in GetDelay(netStats.ns, netStats.cfg.ChunkDelay) :
              /\ delay >= netStats.cfg.MinDelay
              /\ delay <= netStats.cfg.MaxDelay

\* C21 witness: in adaptive mode the multiplier is at its upper bound after
\* a sleep of max_delay, with min_delay < max_delay.
MultiplierAtBoundWitness ==
    /\ netStats.cfg.AdaptiveDelay
    /\ netStats.ns.DelayMultiplier = 10 * MultScale
    /\ netStats.cfg.MinDelay < netStats.cfg.MaxDelay
    /\ netStats.slept = <<netStats.cfg.MaxDelay>>

\* C22 (fixed delay verbatim): with adaptive mode off GetDelay(base) is base,
\* so every sleep of the sender before a chunk is the configured chunk
\* delay.
FixedDelayVerbatim ==
    (~netStats.cfg.AdaptiveDelay /\ netStats.side = "sender" /\ netStats.slept # <<>>)
        => netStats.slept = <<netStats.cfg.ChunkDelay>>

CompressibleNames ==
    { <<102,46,116,120,116>>, <<102,46,108,111,103>>, <<102,46,106,115,111,110>>,
      <<70,46,84,88,84>> }

NotCompressibleNames ==
    { <<102,46,122,105,112>>, <<102,46,106,112,103>>, <<102,46,109,112,52>>,
      <<70,46,90,73,80>>, <<102,46,120,121,122>>, <<102>> }

\* C24 (compression policy): a Data frame carries compression flag 1 iff the
\* sender's compression setting is on and the file's extension, in lower
\* case, is in the compressible set and not in the already-compressed set;
\* should_compress is true for .txt, .log, .json, false for .zip, .jpg, .mp4
\* and unknown extensions.
CompressionPolicy ==
    /\ \A name \in CompressibleNames : ShouldCompress(name)
    /\ \A name \in NotCompressibleNames : ~ShouldCompress(name)
    /\ \A k \in 1..Len(log.data) :
          /\ log.data[k].flag \in {0, 1}
          /\ log.data[k].flag = 1 <=>
                /\ clientCfg.Compression
                /\ ToLower(Ext(filePath)) \in CompressibleExtensions
                /\ ToLower(Ext(filePath)) \notin AlreadyCompressedExtensions

\* C24 witness: a Data frame with flag 1 was sent for f.txt, and the
\* receiver wrote the chunk.
CompressedFrameWitness ==
    /\ log.data # <<>>
    /\ log.data[1].flag = 1
    /\ log.written # {}

\* The bytes of chunk i on the grid of chunkSize over a file of fileSize bytes.
GridRange(i, chunkSize, fileSize) ==
    { b \in 0..(fileSize - 1) :
        i * chunkSize <= b /\ b < Min((i + 1) * chunkSize, fileSize) }

\* The grid's ranges are non-empty, pairwise disjoint and cover the file.
GridPartitions(chunkSize, fileSize) ==
    LET chunks == 0..(NumChunksOf(fileSize, chunkSize) - 1)
    IN  /\ \A i \in chunks : GridRange(i, chunkSize, fileSize) # {}
        /\ \A i, j \in chunks :
              i # j => GridRange(i, chunkSize, fileSize)
                          \cap GridRange(j, chunkSize, fileSize) = {}
        /\ UNION { GridRange(i, chunkSize, fileSize) : i \in chunks }
              = 0..(fileSize - 1)

\* Every offset requested so far is the start of a chunk of the grid.
RequestsOnGrid ==
    \A k \in 1..Len(log.requests) :
        \E i \in GridChunks : log.requests[k] = GridStart(i)

\* Every Data frame sent so far announces the grid length of its chunk.
DataOnGrid ==
    \A k \in 1..Len(log.data) :
        \E i \in GridChunks :
            /\ log.data[k].offset = GridStart(i)
            /\ log.data[k].size = GridEnd(i) - GridStart(i)

\* C25 (chunk grid): for every file size and chunk size the ranges
\* [i*C, min((i+1)*C, file_size)) are non-empty, pairwise disjoint and cover
\* [0, file_size); the offsets the receiver requests and the sizes the sender
\* sends follow this grid.
ChunkGridFollowed ==
    /\ \A fileSize \in 1..(MaxFileSize + 1), chunkSize \in 1..(MaxChunkSize + 1) :
          GridPartitions(chunkSize, fileSize)
    /\ RequestsOnGrid
    /\ DataOnGrid

\* Every chunk of the transfer is marked received.
AllChunksReceived ==
    /\ srv.ChunksReceived # <<>>
    /\ \A i \in 1..Len(srv.ChunksReceived) : srv.ChunksReceived[i]

ValidationChecks(c) ==
    << <<c.ChunkSize <= 0, "chunk size must be positive">>,
       <<c.BufferSize <= 0, "buffer size must be positive">>,
       <<c.Workers <= 0, "workers must be positive">>,
       <<c.Retries < 0, "retries cannot be negative">>,
       <<c.Timeout <= 0, "timeout must be positive">>,
       <<c.AdaptiveDelay /\ (c.MinDelay <= 0 \/ c.MaxDelay <= 0 \/ c.MinDelay > c.MaxDelay),
         "invalid adaptive delay configuration">>,
       <<~c.IsServer /\ c.FilePath = "", "file path is required in client mode">> >>

\* C27 (Config.Validate): a validated configuration has an error iff one of
\* the seven checks fails, the error is that of the first failing check in
\* the stated order, and a configuration failing none is accepted.
ValidateFirstFailingCheck ==
    startup.checked =>
        LET checks  == ValidationChecks(startup.config)
            failing == {i \in 1..Len(checks) : checks[i][1]}
        IN  /\ (startup.err # <<>>) <=> (failing # {})
            /\ failing # {} =>
                  \E i \in failing :
                      /\ \A j \in failing : i <= j
                      /\ startup.err = <<checks[i][2]>>

\* C27 witness: Validate has refused a configuration that fails two checks,
\* a negative retry count and, later in the order, a missing file path.
ValidateRefusedWitness ==
    /\ startup.checked
    /\ startup.config.Retries < 0
    /\ ~startup.config.IsServer /\ startup.config.FilePath = ""
    /\ startup.err = <<"retries cannot be negative">>

\* The Resume frame the sender is about to read in negotiateResume was
\* written by a peer as the offer log.answer[1]; accept says whether the
\* claim has the sender accept it.
ResumeOffered == cpc = "negotiate" /\ log.answer # <<>>

ResumeAcceptable ==
    /\ log.answer[1].numeric
    /\ log.answer[1].CanResume
    /\ log.answer[1].TotalChunks = NumChunksOf(Len(source), cl.ChunkSize)

\* C28 (resume acceptance): the step in which the sender handles a Resume
\* frame accepts it iff can_resume is set and total_chunks is the sender's
\* own chunk count, writes exactly one ResumeAck with the matching flag,
\* also when the resume info cannot be read, and goes on to the command
\* loop without having taken a further command.
ResumeAnsweredOnce ==
    [][(ResumeOffered /\ cpc' # "negotiate") =>
          /\ cpc' = "loop"
          /\ cl'.CanResume = ResumeAcceptable
          /\ c2s' = ClientWrites(SendResumeAck(ResumeAcceptable))
          /\ cl'.NextCommand = 0]_vars

\* The sender's Run has returned from its command loop (not killed, no panic).
LoopReturned == cpc = "exit" /\ cl.result \in {"success", "error"}

\* The Error frames the sender has read to their last byte.
ErrorsRead == { j \in 1..Len(log.errors) : log.errors[j].end < NextReadPos }

\* C29 (Complete and Error at the sender): the command loop returns success
\* only after Complete was sent to it and never after an Error frame, and
\* once it has read an Error frame it returns an error that carries the
\* message of that frame (the first it read), the hash-mismatch Error
\* included, having taken the frame's bytes for nothing else.
ErrorFrameReported ==
    /\ (LoopReturned /\ cl.result = "success") =>
           /\ \E j \in 1..Len(log.frames) : log.frames[j] = "Complete"
           /\ log.errors = <<>>
    /\ (cpc \in {"loop", "verdict"} /\ ErrorsRead # {}) => FALSE
    /\ (LoopReturned /\ ErrorsRead # {}) =>
           /\ cl.result = "error"
           /\ \E j \in ErrorsRead :
                 /\ \A k \in ErrorsRead : j <= k
                 /\ cl.errMsg = log.errors[j].message

\* The receiver is about to read the Data frame a peer sent last, and the
\* size the frame announces.
PeerFrameArrived ==
    /\ spc = "data"
    /\ log.answer # <<>>
    /\ c2s = PeerFrame(log.answer[1].size, PeerPlain(log.answer[1].plain))

AnnouncedSize == log.answer[1].size

\* C30 (announced size bounds): the attempt that reads a Data frame whose
\* announced size is not within 0 < size <= chunk_size fails, writes nothing
\* to the output file and marks no chunk received; a frame that is written
\* announced a size within the bounds.
AnnouncedSizeBounded ==
    [][PeerFrameArrived =>
          /\ (AnnouncedSize <= 0 \/ AnnouncedSize > serverCfg.ChunkSize) =>
                /\ spc' \in {"data", "chunks"}
                /\ spc' = "chunks" => srv'.retry = srv.retry + 1
                /\ outFile' = outFile
                /\ stateFile' = stateFile
                /\ srv'.ChunksReceived = srv.ChunksReceived
                /\ log'.written = log.written
          /\ spc' = "written" =>
                (0 < AnnouncedSize /\ AnnouncedSize <= serverCfg.ChunkSize)]_vars

\* C30 witness: an attempt has failed on a frame that announced more than
\* the chunk size; the bytes after the size line are still unread and the
\* output file is as preallocated.
OversizeRejectedWitness ==
    /\ spc = "chunks"
    /\ srv.retry = 1
    /\ log.answer # <<>>
    /\ log.answer[1].size > serverCfg.ChunkSize
    /\ c2s = Drop(PeerFrame(log.answer[1].size, PeerPlain(log.answer[1].plain)),
                  Len(SendCommand(CmdData) \o SendInt64(log.answer[1].size)))
    /\ outFile = <<PreallocateFile(<<>>, Len(source))>>
    /\ log.written = {}

\* The sender is about to read, in its command loop, the HashAlgo frame a
\* peer has sent.
HashAlgoArrived ==
    /\ cpc = "loop"
    /\ cl.NextCommand = 0
    /\ log.algo # <<>>
    /\ s2c = SendHashAlgorithm(log.algo[1])

\* C31 (unknown hash algorithm): the sender answers a HashAlgo frame with a
\* digest only when the token (the line of the frame without surrounding
\* white space, as every string of the protocol is read) is md5, sha256 or
\* blake2b; for any other token the step fails with an error, no digest is
\* computed and nothing is sent.
UnknownAlgorithmRefused ==
    [][(HashAlgoArrived /\ cpc' # "loop") =>
          IF TrimSpace(log.algo[1]) \in {HashMD5, HashSHA256, HashBLAKE2b}
          THEN /\ cpc' = "verdict"
               /\ c2s' = ClientWrites(SendCommand(CmdHash) \o SendString(cl'.hash))
          ELSE /\ cpc' = "exit"
               /\ cl'.result = "error"
               /\ cl'.hash = <<>>
               /\ c2s' = c2s]_vars

\* C31 witness: the sender has returned an error on the upper-case token
\* MD5 without a digest and with nothing written.
UnknownAlgorithmWitness ==
    /\ log.algo = << <<77,68,53>> >>
    /\ cpc = "exit"
    /\ cl.result = "error"
    /\ cl.hash = <<>>
    /\ c2s = <<>>
    /\ s2c = <<>>

\* The bandwidth the table of the claim gives for an RTT in ms.
TableBandwidth(rtt) ==
    CASE rtt < 10 -> 50 * 1024 * 1024
      [] rtt >= 10 /\ rtt < 50 -> 20 * 1024 * 1024
      [] rtt >= 50 /\ rtt < 100 -> 10 * 1024 * 1024
      [] OTHER -> 5 * 1024 * 1024

\* Bandwidth x RTT clamped to [512 KiB, 8 MiB].
ClampedProduct(rtt) ==
    Min(Max(BandwidthDelayProduct(TableBandwidth(rtt), rtt), 512 * 1024), 8 * 1024 * 1024)

\* C32 (profiler chunk size): a finished profile has the bandwidth of the
\* table for its RTT, and its chunk size is bandwidth x RTT clamped to
\* [512 KiB, 8 MiB], then for an RTT above 50 ms one and a half times that
\* capped at 8 MiB; the chunk size lies in [512 KiB, 8 MiB].
ProfilerChunkSize ==
    (netProfile.done /\ netProfile.rtt # <<>>) =>
        /\ netProfile.Bandwidth = TableBandwidth(netProfile.RTT)
        /\ netProfile.OptimalChunkSize =
              IF netProfile.RTT > 50
              THEN Min((3 * ClampedProduct(netProfile.RTT)) \div 2, 8 * 1024 * 1024)
              ELSE ClampedProduct(netProfile.RTT)
        /\ netProfile.OptimalChunkSize >= 512 * 1024
        /\ netProfile.OptimalChunkSize <= 8 * 1024 * 1024

\* C33 (one chunk grid on both sides): the Data frame the sender returns for
\* a Request carries the Request's offset and exactly
\* min(receiver's chunk size, file size - offset) bytes, whatever chunk size
\* the sender was configured with or took from the network profile.
SenderFollowsReceiverGrid ==
    /\ Len(log.data) <= Len(log.requests)
    /\ \A k \in 1..Len(log.data) :
          /\ log.data[k].offset = log.requests[k]
          /\ log.data[k].size = Min(serverCfg.ChunkSize, Len(source) - log.data[k].offset)

\* The chunks received on this connection that the receiver has marked.
MarkedHere == { i \in log.written : srv.ChunksReceived[i + 1] }

\* C34 (a marked chunk is whole): a chunk the receiver has marked received
\* was written in its full grid length, so the output file holds the
\* source's bytes on the whole range of the chunk, and no Data frame that
\* announced fewer bytes than the grid length was sent for it.
MarkedChunkWhole ==
    \A i \in MarkedHere :
        /\ outFile # <<>> =>
              \A b \in GridRange(i, serverCfg.ChunkSize, Len(source)) :
                  /\ b + 1 <= Len(outFile[1])
                  /\ outFile[1][b + 1] = source[b + 1]
        /\ \A k \in 1..Len(log.data) :
              log.data[k].offset = GridStart(i) =>
                  log.data[k].size >= GridEnd(i) - GridStart(i)

\* The frames the sender's side has written after Init: the ResumeAck, the
\* Data frame of each Request served (or the peer's last Data frame) and the
\* Hash frame with the digest.
FramesFromClient ==
    {SendResumeAck(TRUE), SendResumeAck(FALSE)}
    \cup { sendChunkData(ReadAt(source, cl.ChunkSize, log.data[k].offset)) :
              k \in 1..Len(log.data) }
    \cup { PeerFrame(log.answer[k].size, PeerPlain(log.answer[k].plain)) :
              k \in { j \in 1..Len(log.answer) : cpc = "peer" } }
    \cup { SendCommand(CmdHash) \o SendString(cl.hash) : k \in { j \in {1} : cl.hash # <<>> } }

RECURSIVE AtFrameStart(_)
\* The stream is made of whole frames of the sender's side.
AtFrameStart(s) ==
    \/ s = <<>>
    \/ \E f \in FramesFromClient :
          /\ Len(f) <= Len(s)
          /\ SubSeq(s, 1, Len(f)) = f
          /\ AtFrameStart(Drop(s, Len(f)))

\* C35 (frame alignment at the receiver): wherever the receiver is about to
\* read a command byte (in waitForResumeDecision, receiveChunk and
\* verifyFileHash), the unread bytes from the sender's side begin with the
\* first byte of a frame, also on the attempt that follows a rejected Data
\* frame.
ServerReadsAtFrameStart ==
    spc \in {"resume", "data", "hash"} => AtFrameStart(c2s)


(***************************************************************************)
(* C36: the last frame of a transfer                                       *)
(***************************************************************************)
\* The last frame the receiver has sent on the connection is Complete or
\* Error.
LastFrameEndsTransfer ==
    /\ log.frames # <<>>
    /\ log.frames[Len(log.frames)] \in {"Complete", "Error"}

\* C36: whenever the receiver, having read Init, ends the transfer itself
\* (it returns from handleFileTransfer or its process dies; a kill from
\* outside is not counted), the last frame it sent on the connection is
\* Complete or Error.
TransferEndsWithCompleteOrError ==
    [][(spc \notin {"accept", "closed", "panicked", "killed"}
        /\ spc' \in {"closed", "panicked"})
       => LastFrameEndsTransfer']_vars


(***************************************************************************)
(* Termination.  A transfer whose connection stays up, whose sender        *)
(* answers and whose two sides work with the same chunk size: the sender's *)
(* chunk size after adjustConfigForNetwork is the receiver's.  The         *)
(* processes may be killed only in the sessions before the last one (which *)
(* is how a later session comes to resume), and the steps of the sender    *)
(* and of the receiver are scheduled fairly (each is its own process, and  *)
(* a goroutine in a read returns once the bytes are there).  With equal    *)
(* chunk sizes the sender never rejects a resume of this receiver, so the  *)
(* receiver's steps after a rejected resume are not among its steps here.  *)
(***************************************************************************)
LastSession == session = MaxSessions

TermSender ==
    \/ (ClientRun /\ cl'.ChunkSize = serverCfg.ChunkSize)
    \/ ClientNegotiate
    \/ ClientCommand
    \/ ClientVerdict

TermReceiver ==
    \/ SrvAccept
    \/ SrvReadMetadata
    \/ SrvResumeDecision
    \/ SrvOpenOutput
    \/ SrvPreallocate
    \/ SrvSkipChunk
    \/ SrvSendRequest
    \/ SrvRetriesExhausted
    \/ SrvReceiveChunk
    \/ SrvMarkReceived
    \/ SrvStartVerify
    \/ SrvSkipVerify
    \/ SrvVerify
    \/ SrvComplete

TermNext ==
    \/ TermSender
    \/ TermReceiver
    \/ (Kill /\ ~LastSession)
    \/ (SenderKill /\ ~LastSession)
    \/ NextSession

TermSpec ==
    /\ Init
    /\ [][TermNext]_vars
    /\ WF_vars(TermSender)
    /\ WF_vars(TermReceiver)

\* The receiver is in a read for which too few bytes have arrived.
SrvWaits ==
    \/ spc = "accept" /\ ReadCommand(c2s, CliClosed).st = "block"
    \/ PendingRead

\* The sender is in a read for which too few bytes have arrived.
CliWaits ==
    CASE cpc = "negotiate" -> negotiateResume(s2c, SrvClosed).st = "block"
      [] cpc = "loop" -> handleServerRequests(s2c, SrvClosed).st = "block"
      [] cpc = "verdict" -> hashVerdict(s2c, SrvClosed).st = "block"
      [] OTHER -> FALSE

\* Neither side has a step to take: each has ended or waits in a read.
Quiescent == (SrvClosed \/ SrvWaits) /\ (CliClosed \/ CliWaits)

\* The receiver sent Complete and the sender's Run returned nil.
TransferDone == CompleteSent /\ cpc = "exit" /\ cl.result = "success"

\* What the receiver has left to do: its place in handleFileTransfer and,
\* in processChunks, the chunks and attempts left.
LoopRank ==
    (MaxFileSize - srv.chunkIdx) * (3 * MaxRetries + 4)
        + (MaxRetries - srv.retry) * 3
        + (CASE spc = "chunks" -> 3 [] spc = "data" -> 2 [] OTHER -> 1)

SrvRank ==
    CASE spc \in {"chunks", "data", "written"} -> 3 + LoopRank
      [] spc = "hash" -> 2
      [] spc = "cleanup" -> 1
      [] SrvClosed -> 0
      [] OTHER ->
           (MaxFileSize + 1) * (3 * MaxRetries + 4) + 6 +
           (CASE spc = "accept" -> 7
              [] spc = "metadata" -> 6
              [] spc = "resume" -> 5
              [] spc = "discardFile" -> 4
              [] spc = "discardState" -> 3
              [] spc = "open" -> 2
              [] OTHER -> 1)

\* What the sender has left to do: the bytes it has not read yet, then its
\* place in Run.
CliRank ==
    4 * Len(s2c) +
    (CASE cpc = "start" -> 3
       [] cpc = "negotiate" -> 2
       [] cpc = "exit" -> 0
       [] OTHER -> IF cl.NextCommand # 0 THEN 2 ELSE 1)

\* C37 (termination): in a session in which no process is killed and the
\* two chunk sizes are equal, every step of either side brings the
\* transfer nearer to its end (the receiver's steps use up its places,
\* chunks and attempts, the sender's the bytes it was sent), and the only
\* state in which neither side has a step left is the one where the receiver
\* has sent Complete and the sender has returned success.  Under TermSpec's
\* fairness this is: the transfer, fresh or resumed, verified or not,
\* eventually ends so, and no side waits forever.
TransferTerminates ==
    /\ [][(LastSession /\ LastSession')
          => \/ SrvRank' < SrvRank
             \/ SrvRank' = SrvRank /\ CliRank' < CliRank]_vars
    /\ []((LastSession /\ Quiescent) => TransferDone)


(***************************************************************************)
(* C39: what the hash handshake does to the output file                    *)
(***************************************************************************)
\* The receiver's step out of the hash handshake removes the output file.
OutputDeletedInHandshake == spc = "hash" /\ outFile # <<>> /\ outFile' = <<>>

\* C39: the receiver deletes the received output file only when the two
\* digests were compared and found unequal; a hash handshake that fails any
\* other way (the sender's reply cannot be read, or is not a Hash frame)
\* leaves the fully received output file.
OutputDeletedOnlyOnMismatch ==
    [][OutputDeletedInHandshake
       => /\ readSourceHash(c2s, CliClosed).st = "ok"
          /\ srv'.result = "mismatch"]_vars


(***************************************************************************)
(* C38: a receiver started with any number of retries Config.Validate      *)
(* accepts.                                                                *)
(***************************************************************************)
\* The -retries values of the receiver's command line that pass Validate.
AcceptedRetries ==
    { r \in 0..MaxRetries :
          Validate([DefaultConfig EXCEPT !.IsServer = TRUE, !.Retries = r]) = <<>> }

RetriesInit ==
    /\ source \in FileContents
    /\ filePath = <<102,46,116,120,116>>
    /\ serverCfg \in [ChunkSize : ChunkSizes, VerifyHash : BOOLEAN,
                      Retries : AcceptedRetries]
    /\ clientCfg \in [ChunkSize : ChunkSizes, VerifyHash : BOOLEAN, Compression : {FALSE}]
    /\ outFile = <<>>
    /\ stateFile = <<>>
    /\ c2s = <<>>
    /\ s2c = <<>>
    /\ spc = "accept"
    /\ srv = srvInit
    /\ cpc = "start"
    /\ cl = clInit
    /\ session = 1
    /\ log = logInit
    /\ other = otherInit
    /\ netStats = netStatsInit
    /\ startup = startupInit
    /\ netProfile = profileInit
    /\ wire = wireInit

RetriesSpec == RetriesInit /\ [][Next]_vars

\* processChunks returns the error of receiveChunkWithRetries: the chunk at
\* srv.chunkIdx is declared failed and the transfer is given up.
ChunkDeclaredFailed ==
    /\ spc = "chunks"
    /\ spc' = "closed"
    /\ srv'.result = "error"

\* C38: before the receiver declares a chunk failed it has sent, on this
\* connection, at least one Request for that chunk, whatever number of
\* retries Validate accepted.
RequestedBeforeFailed ==
    [][ChunkDeclaredFailed
       => \E k \in 1..Len(log.requests) :
              log.requests[k] = srv.chunkIdx * serverCfg.ChunkSize]_vars


(***************************************************************************)
(* The Resume frame on its own: a ResumeInfo is written by SendResumeInfo  *)
(* in front of whatever follows it on the connection, and read back the    *)
(* way negotiateResume reads it: ReadCommand for the command byte, then    *)
(* ReadResumeInfo.                                                         *)
(***************************************************************************)
\* Resume offsets: none, negative, one and two digits, a 2 MiB chunk.
ResumeOffsets == {0 - 1, 0, 7, 12, DefaultChunkSize}

\* ResumeInfo records shaped as sendResumeInfoToClient builds them: with a
\* bitmap of TotalChunks entries when resuming, with no bitmap and no offset
\* otherwise.
ResumeInfos ==
    UNION { { [CanResume |-> TRUE, ResumeOffset |-> off, TotalChunks |-> n,
               CompletedChunks |-> b] :
                  off \in ResumeOffsets, b \in [1..n -> BOOLEAN] } :
            n \in 1..MaxWireChunks }
    \cup
    { [CanResume |-> FALSE, ResumeOffset |-> 0, TotalChunks |-> n, CompletedChunks |-> <<>>] :
          n \in 1..MaxWireChunks }

\* What follows the frame on the connection: nothing, a Request frame, a
\* byte that is the flag of a resume, a line of digits.
WireTails == { <<>>, SendCommand(CmdRequest) \o SendInt64(0), <<1>>, <<49, 44, 50, 10>> }

WireInit ==
    /\ Init
    /\ source = <<3>>
    /\ filePath = <<102,46,116,120,116>>
    /\ serverCfg = [ChunkSize |-> 1, VerifyHash |-> FALSE, Retries |-> 1]
    /\ clientCfg = [ChunkSize |-> 1, VerifyHash |-> FALSE, Compression |-> FALSE]

\* A ResumeInfo and what will follow its frame are chosen.
WireChoose ==
    /\ wire.pc = "idle"
    /\ \E info \in ResumeInfos, tail \in WireTails :
          wire' = [wire EXCEPT !.pc = "send", !.info = info, !.tail = tail]
    /\ UNCHANGED <<source, filePath, serverCfg, clientCfg, other, outFile, stateFile,
                   c2s, s2c, spc, srv, cpc, cl, session, log, netStats, startup,
                   netProfile>>

\* SendResumeInfo, then the bytes that follow.
WireSend ==
    /\ wire.pc = "send"
    /\ wire' = [wire EXCEPT !.pc = "read",
                            !.bytes = SendResumeInfo(wire.info) \o wire.tail]
    /\ UNCHANGED <<source, filePath, serverCfg, clientCfg, other, outFile, stateFile,
                   c2s, s2c, spc, srv, cpc, cl, session, log, netStats, startup,
                   netProfile>>

\* negotiateResume's ReadCommand and ReadResumeInfo.
WireRead ==
    /\ wire.pc = "read"
    /\ wire' = [wire EXCEPT !.pc = "done",
                            !.read = <<Then(ReadCommand(wire.bytes, FALSE),
                                            LAMBDA cmd : ReadResumeInfo(cmd.rest, FALSE))>>]
    /\ UNCHANGED <<source, filePath, serverCfg, clientCfg, other, outFile, stateFile,
                   c2s, s2c, spc, srv, cpc, cl, session, log, netStats, startup,
                   netProfile>>

WireNext == WireChoose \/ WireSend \/ WireRead

WireSpec == WireInit /\ [][WireNext]_vars

\* C40 (ResumeInfo wire round trip): a ResumeInfo with can_resume = true,
\* total_chunks = n >= 1 and a bitmap of n entries is read back from the
\* bytes SendResumeInfo wrote with the same can_resume, resume_offset,
\* total_chunks and bitmap, and the read stops at the end of the frame; for
\* can_resume = false the read takes the flag byte and no more and yields
\* can_resume = false.
ResumeInfoRoundTrip ==
    wire.pc = "done" =>
        /\ wire.read[1].st = "ok"
        /\ wire.read[1].rest = wire.tail
        /\ wire.read[1].v.CanResume = wire.info.CanResume
        /\ wire.info.CanResume =>
              /\ wire.read[1].v.ResumeOffset = wire.info.ResumeOffset
              /\ wire.read[1].v.TotalChunks = wire.info.TotalChunks
              /\ wire.read[1].v.CompletedChunks = wire.info.CompletedChunks
        /\ ~wire.info.CanResume =>
              Len(wire.bytes) - Len(wire.read[1].rest) = 2

\* C40 witness: a ResumeInfo with a negative offset and a bitmap that marks
\* chunks 0 and 10 but not those between has been read back, with a Request
\* frame behind it.
ResumeInfoRoundTripWitness ==
    /\ wire.pc = "done"
    /\ wire.info.CanResume
    /\ wire.info.ResumeOffset < 0
    /\ wire.info.TotalChunks = 11
    /\ wire.info.CompletedChunks[1]
    /\ wire.info.CompletedChunks[11]
    /\ \A i \in 2..10 : ~wire.info.CompletedChunks[i]
    /\ wire.tail # <<>>
    /\ wire.read[1].st = "ok"

=============================================================================
